---- MODULE Spec2Model ----
(***************************************************************************)
(* Outreach and follow-up campaign of the candidate/role matching system:  *)
(* pool building (zoho_app/outreach_automation.py), the per-role dispatch   *)
(* with its weekly limiter, the follow-up sweep                             *)
(* (zoho_app/follow_up_workflow.py) and reply ingestion                     *)
(* (zoho_app/email_reply_parser.py).                                        *)
(*                                                                         *)
(* Time is counted in hours.  A batch pass and a sweep are processes: they  *)
(* take their snapshot in one step and then handle one role / one task per  *)
(* step, each step containing every database write of that handler.  In     *)
(* the sequential specification Spec no other operation starts while a      *)
(* pass or a sweep is in progress.                                          *)
(***************************************************************************)
EXTENDS Integers, Sequences, FiniteSets, TLC

\* ------------------------------------------------------------------ bounds
MaxTicks == 3
TickHours == 48
MaxDeleted == 1
MaxLogs == 3
MaxResponses == 1
MaxRecomputes == 2
MaxChanges == 2
MaxMatched == 2
MaxSkills == 4
MaxRejected == 3
MaxConfirmed == 2
MaxActive == 4
LiveTicks == 4
LiveLogs == 7

\* ------------------------------------------------------- program constants
FOLLOW_UP_HOURS == 48
FINAL_HOURS == 96
MOVE_TO_NEXT_HOURS == 144
LIMIT_PER_ROLE == 3
LIMIT_PER_CANDIDATE == 3
NEXT_ROLES_LIMIT == 3
WEEKLY_LIMIT == 1
\* 0.2, in score units
MIN_POOL_SCORE == 60
URGENT_DAYS_VISA == 120
URGENT_DAYS_NO_VISA == 60
HoursPerDay == 24
DaysPerWeek == 7

\* ------------------------------------------------------------ the directory
Cands == {1, 2}
Roles == {1, 2}
Companies == {"coA"}

\* Inputs of the operations
MaxRolesInputs == {0, 1}
ResponseTypes == {"interested"}

NoLog == 0
NoDate == -1
NoType == ""

\* The Contact rows: the candidates above and six more, which have stored
\* matches only in the runs that study the pool building alone.
ContactIds == 1..8

\* Contact rows of the candidates (externally synced, read-only to the core).
\* The odd candidates are not urgent (no visa needed, start in 300 days), the
\* even ones are (visa needed, start in 90 days).
ContactTable ==
  [c \in ContactIds |->
     IF c % 2 = 1
       THEN [student_status |-> "ACTIVE: Placement", role_success_stage |-> "",
             start_day |-> 300, requires_a_visa |-> "No"]
       ELSE [student_status |-> "ACTIVE: Placement", role_success_stage |-> "",
             start_day |-> 90, requires_a_visa |-> "Yes"]]

\* The InternRole rows: the roles above and three more, which have stored
\* matches only in the runs that study the move to the next roles.
InternRoles == 1..5

\* InternRole rows: the owning company of each role.
RoleCompany == [r \in InternRoles |-> "coA"]

\* Scores are counted in units of 1/300, so that a third of the skill weight
\* is a whole number: 300 stands for 1.0.
ScoreUnit == 300

\* Stored active JobMatch rows with scores 0.80, 0.60, 0.70, 0.50 (0 = no row).
MatchTable ==
  [c \in Cands |->
     IF c = 1 THEN [r \in Roles |-> IF r = 1 THEN 240 ELSE 180]
              ELSE [r \in Roles |-> IF r = 1 THEN 210 ELSE 150]]

VARIABLES
  now,              \* wall clock, hours
  contacts,         \* ids of the candidate Contact rows that exist
  job_matches,      \* JobMatch table: [Cands -> [Roles -> score]]
  outreach_logs,    \* OutreachLog table, a sequence indexed by id
  follow_up_tasks,  \* FollowUpTask table, a sequence indexed by id
  outreach_history, \* CandidateOutreachHistory table, a set of rows
  email_limiter,    \* EmailLimiter table: [Companies -> row]
  pc,               \* "idle", "pass", "sweep" or "move"
  pass_queue,       \* roles of the running batch still to dispatch
  sweep_queue,      \* tasks of the running sweep still to process
  move_queue,       \* (candidate, role) pairs of the running move-to-next
  last_dispatch,    \* result of the last process_outreach_for_role call
  last_task,        \* result of the last process_follow_up_task call
  moved,            \* ids of logs whose move_to_next step has run
  processed,        \* ids of tasks handed to process_follow_up_task so far
  workers,          \* invocations running concurrently, each with its locals
  match_rows,       \* JobMatch table, the set of its rows
  crm,              \* Account / Deal / InternRole data synced from the CRM
  deal_sync,        \* RoleDealSync table: [Roles -> cached count or NoSync]
  matchers,         \* recomputes in progress, each with its locals
  last_recompute,   \* per candidate, the last recompute that finished
  match_steps,      \* recomputes started and data changes synced so far
  scoring,          \* the arguments and the result of a calculate_match_score call
  pools             \* the groupings the last dry run returned

vars == <<now, contacts, job_matches, outreach_logs, follow_up_tasks,
          outreach_history, email_limiter, pc, pass_queue, sweep_queue,
          move_queue, last_dispatch, last_task, moved, processed, workers,
          match_rows, crm, deal_sync, matchers, last_recompute, match_steps,
          scoring, pools>>

matching == <<match_rows, crm, deal_sync, matchers, last_recompute, match_steps,
             scoring, pools>>

db == <<outreach_logs, follow_up_tasks, outreach_history, email_limiter>>

\* ----------------------------------------------------------------- helpers
LogIds == 1..Len(outreach_logs)
TaskIds == 1..Len(follow_up_tasks)

Result(op, status, reason) == [op |-> op, status |-> status, reason |-> reason]

\* timezone.now().date(), as a day number
Today == now \div HoursPerDay

\* Monday of the current week, as a day number (day 0 is a Monday)
WeekStart == Today - (Today % DaysPerWeek)

check_urgency(c) ==
  LET days_until_start == ContactTable[c].start_day - Today
      visa == ContactTable[c].requires_a_visa
  IN  IF visa = "Yes" THEN days_until_start < URGENT_DAYS_VISA
      ELSE IF visa = "No" THEN days_until_start < URGENT_DAYS_NO_VISA
      ELSE FALSE

NoLimiter == [exists |-> FALSE, week_start_date |-> 0, emails_sent_this_week |-> 0]

\* Faulty variant: the weekly check lets every send through.
can_send_email_always(lim, company) == TRUE

can_send_email_to_company(lim, company) ==
  LET limiter == lim[company]
  IN  IF ~limiter.exists THEN TRUE
      ELSE IF limiter.week_start_date < WeekStart THEN TRUE
      ELSE limiter.emails_sent_this_week < WEEKLY_LIMIT

\* Faulty variant: the counter of an earlier week is carried into the new one.
update_email_limiter_without_reset(lim, company) ==
  LET limiter == lim[company]
  IN  IF ~limiter.exists
      THEN [lim EXCEPT ![company] =
              [exists |-> TRUE, week_start_date |-> WeekStart, emails_sent_this_week |-> 1]]
      ELSE [lim EXCEPT ![company].emails_sent_this_week = @ + 1]

update_email_limiter(lim, company) ==
  LET limiter == lim[company]
  IN  IF ~limiter.exists
      THEN [lim EXCEPT ![company] =
              [exists |-> TRUE, week_start_date |-> WeekStart, emails_sent_this_week |-> 1]]
      ELSE IF limiter.week_start_date < WeekStart
      THEN [lim EXCEPT ![company] =
              [exists |-> TRUE, week_start_date |-> WeekStart, emails_sent_this_week |-> 1]]
      ELSE [lim EXCEPT ![company].emails_sent_this_week = @ + 1]

\* ------------------------------------------------------------ pool building
\* The candidates and the roles the JobMatch table is tabulated for.
MatchedCands == DOMAIN job_matches

MatchedRoles == UNION {DOMAIN job_matches[c] : c \in MatchedCands}

\* Rows of JobMatch.objects.filter(status='active', match_score__gte=0.2)
SelectableMatches ==
  {m \in MatchedCands \X MatchedRoles : job_matches[m[1]][m[2]] >= MIN_POOL_SCORE}

\* The orders in which the database may return rows of equal sort key.
TieOrders ==
  {f \in [MatchedCands -> 1..Cardinality(MatchedCands)] :
     \A a, b \in MatchedCands : f[a] = f[b] => a = b}

\* Faulty variant: order_by('intern_role_id', 'match_score'), the lowest first.
BeforeAscending(m1, m2, tie) ==
  \/ m1[2] < m2[2]
  \/ /\ m1[2] = m2[2]
     /\ \/ job_matches[m1[1]][m1[2]] < job_matches[m2[1]][m2[2]]
        \/ /\ job_matches[m1[1]][m1[2]] = job_matches[m2[1]][m2[2]]
           /\ tie[m1[1]] < tie[m2[1]]

\* order_by('intern_role_id', '-match_score')
Before(m1, m2, tie) ==
  \/ m1[2] < m2[2]
  \/ /\ m1[2] = m2[2]
     /\ \/ job_matches[m1[1]][m1[2]] > job_matches[m2[1]][m2[2]]
        \/ /\ job_matches[m1[1]][m1[2]] = job_matches[m2[1]][m2[2]]
           /\ tie[m1[1]] < tie[m2[1]]

RECURSIVE SortMatches(_, _)
SortMatches(S, tie) ==
  IF S = {} THEN <<>>
  ELSE LET m == CHOOSE x \in S : \A o \in S \ {x} : Before(x, o, tie)
       IN  <<m>> \o SortMatches(S \ {m}, tie)

\* Faulty variant: the history of a pair is never consulted.
NeverPitched(c, r) == FALSE

\* CandidateOutreachHistory.objects.filter(contact_id=c, intern_role_id=r).exists()
AlreadyPitched(c, r) ==
  \E h \in outreach_history : h.contact_id = c /\ h.intern_role_id = r

\* Contact.objects.filter(id=c, student_status='ACTIVE: Placement')
\*        .exclude(role_success_stage='Role Confirmed').first()
PlacementContact(c) ==
  /\ c \in contacts
  /\ ContactTable[c].student_status = "ACTIVE: Placement"
  /\ ContactTable[c].role_success_stage # "Role Confirmed"

\* The per-candidate gate of the normal pass.
CandidateLimitReached(count) == count > LIMIT_PER_CANDIDATE

\* The per-candidate gate of the urgent pass.
CandidateUsed(c, used_candidate_ids) == c \in used_candidate_ids

EmptyPools == [r \in MatchedRoles |-> <<>>]

RECURSIVE TopWalk(_, _, _)
TopWalk(ms, role_candidates, limit_per_candidate) ==
  IF ms = <<>> THEN role_candidates
  ELSE
    LET c == ms[1][1]
        r == ms[1][2]
        rest == Tail(ms)
    IN  IF ~PlacementContact(c) \/ check_urgency(c)
          THEN TopWalk(rest, role_candidates, limit_per_candidate)
        ELSE IF AlreadyPitched(c, r)
          THEN TopWalk(rest, role_candidates, limit_per_candidate)
        ELSE IF CandidateLimitReached(limit_per_candidate[c])
          THEN TopWalk(rest, role_candidates, limit_per_candidate)
        ELSE IF Len(role_candidates[r]) < LIMIT_PER_ROLE
          THEN TopWalk(rest, [role_candidates EXCEPT ![r] = Append(@, c)],
                       [limit_per_candidate EXCEPT ![c] = @ + 1])
        ELSE TopWalk(rest, role_candidates, limit_per_candidate)

RECURSIVE UrgentWalk(_, _, _)
UrgentWalk(ms, role_candidates, used_candidate_ids) ==
  IF ms = <<>> THEN role_candidates
  ELSE
    LET c == ms[1][1]
        r == ms[1][2]
        rest == Tail(ms)
    IN  IF c \notin contacts \/ ~check_urgency(c)
          THEN UrgentWalk(rest, role_candidates, used_candidate_ids)
        ELSE IF AlreadyPitched(c, r)
          THEN UrgentWalk(rest, role_candidates, used_candidate_ids)
        ELSE IF CandidateUsed(c, used_candidate_ids)
          THEN UrgentWalk(rest, role_candidates, used_candidate_ids)
        ELSE IF Len(role_candidates[r]) < LIMIT_PER_ROLE
          THEN UrgentWalk(rest, [role_candidates EXCEPT ![r] = Append(@, c)],
                          used_candidate_ids \cup {c})
        ELSE UrgentWalk(rest, role_candidates, used_candidate_ids)

\* {k: v for k, v in role_candidates.items() if v}, in insertion (role) order
Grouping(role_candidates) ==
  SelectSeq([r \in 1..Cardinality(MatchedRoles) |->
               [role_id |-> r, candidates |-> role_candidates[r]]],
            LAMBDA e : e.candidates # <<>>)

get_top_candidates_by_role(tie) ==
  Grouping(TopWalk(SortMatches(SelectableMatches, tie), EmptyPools,
                   [c \in MatchedCands |-> 0]))

get_urgent_candidates_by_role(tie) ==
  Grouping(UrgentWalk(SortMatches(SelectableMatches, tie), EmptyPools, {}))

\* ---------------------------------------------------------------- dispatch
\* generate_thread_id: uuid5 of "role-<id>-company-<id>", a function of the pair
generate_thread_id(r, company) == <<r, company>>

\* partner contact emails of a company, as stored in OutreachLog.recipients
Recipients(company) == <<company>>

\* Faulty variant: the move_to_next task is scheduled with the final task.
schedule_follow_ups_early_move(log_id) ==
  << [outreach_log |-> log_id, follow_up_type |-> "follow_up",
      scheduled_date |-> now + FOLLOW_UP_HOURS, completed |-> FALSE],
     [outreach_log |-> log_id, follow_up_type |-> "final",
      scheduled_date |-> now + FINAL_HOURS, completed |-> FALSE],
     [outreach_log |-> log_id, follow_up_type |-> "move_to_next",
      scheduled_date |-> now + FINAL_HOURS, completed |-> FALSE] >>

schedule_follow_ups(log_id) ==
  << [outreach_log |-> log_id, follow_up_type |-> "follow_up",
      scheduled_date |-> now + FOLLOW_UP_HOURS, completed |-> FALSE],
     [outreach_log |-> log_id, follow_up_type |-> "final",
      scheduled_date |-> now + FINAL_HOURS, completed |-> FALSE],
     [outreach_log |-> log_id, follow_up_type |-> "move_to_next",
      scheduled_date |-> now + MOVE_TO_NEXT_HOURS, completed |-> FALSE] >>

\* Faulty variant: the cycle number is the count of the earlier rows itself.
RECURSIVE AddHistoryFromZero(_, _, _, _)
AddHistoryFromZero(hist, cands, r, log_id) ==
  IF cands = <<>> THEN hist
  ELSE
    LET c == cands[1]
        existing_cycles ==
          Cardinality({h \in hist : h.contact_id = c /\ h.intern_role_id = r})
        row == [contact_id |-> c, intern_role_id |-> r, outreach_log |-> log_id,
                cycle_number |-> existing_cycles, status |-> "active",
                response_received |-> FALSE, response_type |-> NoType]
    IN  AddHistoryFromZero(hist \cup {row}, Tail(cands), r, log_id)

RECURSIVE AddHistory(_, _, _, _)
AddHistory(hist, cands, r, log_id) ==
  IF cands = <<>> THEN hist
  ELSE
    LET c == cands[1]
        existing_cycles ==
          Cardinality({h \in hist : h.contact_id = c /\ h.intern_role_id = r})
        row == [contact_id |-> c, intern_role_id |-> r, outreach_log |-> log_id,
                cycle_number |-> existing_cycles + 1, status |-> "active",
                response_received |-> FALSE, response_type |-> NoType]
    IN  AddHistory(hist \cup {row}, Tail(cands), r, log_id)

\* create_outreach_email: "templates = self.urgent_email_templates if urgent
\* else self.email_templates"
TemplateSet(urgent) == IF urgent THEN "urgent" ELSE "normal"

\* Faulty variant: the initial email is composed with the urgency of the dispatch.
InitialTemplatesOfDispatch(is_urgent) == TemplateSet(is_urgent)

\* process_outreach_for_role calls create_outreach_email(role, candidates,
\* company_contacts): urgent is not passed and takes its default, False.
InitialTemplates(is_urgent) == TemplateSet(FALSE)

\* templates is not a column: it is the template set the email of the log was
\* composed from.
InitialLog(r, cands, is_urgent, log_id) ==
  [intern_role_id |-> r, company_id |-> RoleCompany[r], email_type |-> "initial",
   recipients |-> Recipients(RoleCompany[r]), candidate_ids |-> cands,
   is_urgent |-> is_urgent, sent_at |-> now, follow_up_count |-> 0,
   next_follow_up_date |-> now + FOLLOW_UP_HOURS,
   message_id |-> log_id, thread_id |-> generate_thread_id(r, RoleCompany[r]),
   in_reply_to |-> NoLog, parent_outreach_log |-> NoLog,
   response_received |-> FALSE, response_type |-> NoType,
   templates |-> InitialTemplates(is_urgent)]

\* Faulty variant: the follow-ups of the new log are scheduled twice.
log_outreach_sent_rescheduling(d, r, cands, is_urgent) ==
  LET log_id == Len(d.logs) + 1
  IN  [logs |-> Append(d.logs, InitialLog(r, cands, is_urgent, log_id)),
       hist |-> AddHistory(d.hist, cands, r, log_id),
       tasks |-> d.tasks \o schedule_follow_ups(log_id) \o schedule_follow_ups(log_id),
       lim |-> update_email_limiter(d.lim, RoleCompany[r])]

\* The tables after log_outreach_sent.
log_outreach_sent(d, r, cands, is_urgent) ==
  LET log_id == Len(d.logs) + 1
  IN  [logs |-> Append(d.logs, InitialLog(r, cands, is_urgent, log_id)),
       hist |-> AddHistory(d.hist, cands, r, log_id),
       tasks |-> d.tasks \o schedule_follow_ups(log_id),
       lim |-> update_email_limiter(d.lim, RoleCompany[r])]

Tables ==
  [logs |-> outreach_logs, hist |-> outreach_history,
   tasks |-> follow_up_tasks, lim |-> email_limiter]

IsUrgent(cands) == \E i \in 1..Len(cands) : check_urgency(cands[i])

\* What the collaborators of one dispatch may answer.
DispatchOutcomes ==
  {"no_company_contacts", "no_partnership_specialist", "email_creation_failed",
   "email_send_failed", "success"}

\* The result dictionary of process_outreach_for_role.
DispatchResult(d, r, cands, ext) ==
  IF ~IsUrgent(cands) /\ ~can_send_email_to_company(d.lim, RoleCompany[r])
    THEN Result("outreach", "skipped", "email_limit_reached")
  ELSE IF ext \in {"no_company_contacts", "no_partnership_specialist"}
    THEN Result("outreach", "skipped", ext)
  ELSE IF ext = "success"
    THEN Result("outreach", "success", "")
  ELSE Result("outreach", "failed", ext)

\* Faulty variant: a failed send is logged like a successful one.
PersistsUnlessSkipped(result) == result.status \in {"success", "failed"}

\* "if success:" - the only branch that reaches log_outreach_sent
PersistsOutreach(result) == result.status = "success"

\* The tables after process_outreach_for_role(r, cands).
process_outreach_for_role(d, r, cands, ext) ==
  IF PersistsOutreach(DispatchResult(d, r, cands, ext))
    THEN log_outreach_sent(d, r, cands, IsUrgent(cands))
    ELSE d

\* --------------------------------------------------------------- follow-ups
RECURSIVE SortTasks(_, _)
SortTasks(S, tasks) ==
  IF S = {} THEN <<>>
  ELSE LET t == CHOOSE x \in S : \A o \in S \ {x} :
                  \/ tasks[x].scheduled_date < tasks[o].scheduled_date
                  \/ tasks[x].scheduled_date = tasks[o].scheduled_date /\ x < o
       IN  <<t>> \o SortTasks(S \ {t}, tasks)

\* Faulty variant: order_by('-scheduled_date'), the latest task first.
PendingOrderLatestFirst(due, tasks) ==
  LET order == SortTasks(due, tasks)
  IN  [i \in 1..Len(order) |-> order[Len(order) + 1 - i]]

\* FollowUpTask.objects.filter(completed=False, scheduled_date__lte=now)
\*   .select_related('outreach_log').order_by('scheduled_date')
\* Every row carries its own copy of the parent log as read by the query.
PendingOrder(due, tasks) == SortTasks(due, tasks)

\* Faulty variant: the query has no filter on the scheduled date.
pending_tasks_of_any_date ==
  LET due == {t \in TaskIds : ~follow_up_tasks[t].completed}
      order == PendingOrder(due, follow_up_tasks)
  IN  [i \in 1..Len(order) |->
         [task |-> order[i],
          outreach_log |-> outreach_logs[follow_up_tasks[order[i]].outreach_log]]]

pending_tasks ==
  LET due == {t \in TaskIds : /\ ~follow_up_tasks[t].completed
                              /\ follow_up_tasks[t].scheduled_date <= now}
      order == PendingOrder(due, follow_up_tasks)
  IN  [i \in 1..Len(order) |->
         [task |-> order[i],
          outreach_log |-> outreach_logs[follow_up_tasks[order[i]].outreach_log]]]

\* Faulty variant: the sweep does not look at the response flag.
ResponseIgnored(log) == FALSE

\* "if outreach_log.response_received:" in process_follow_up_task
ResponseAlreadyReceived(log) == log.response_received

\* task.completed = True; task.save() (completed_at is not modelled)
CompleteTask(tasks, t) ==
  [tasks EXCEPT ![t].completed = TRUE]

\* What the collaborators of one follow-up send may answer.
FollowUpOutcomes ==
  {"email_creation_failed", "no_partnership_specialist", "email_send_failed", "success"}

\* The candidates of the log whose Contact row still exists.
FoundCandidates(log) == SelectSeq(log.candidate_ids, LAMBDA c : c \in contacts)

\* The result dictionary of send_follow_up_email.
FollowUpResult(log, ext) ==
  IF FoundCandidates(log) = <<>> THEN Result("task", "skipped", "no_candidates")
  ELSE IF ext = "success" THEN Result("task", "success", "")
  ELSE Result("task", "error", ext)

\* The branches of send_follow_up_email that end in task.save().
FollowUpCompletesTask(result) ==
  result.status = "success" \/ result.reason = "no_candidates"

\* Faulty variant: the follow-up opens a thread of its own.
FollowUpLogOwnThread(parent_id, log, email_type, log_id) ==
  [intern_role_id |-> log.intern_role_id, company_id |-> log.company_id,
   email_type |-> email_type, recipients |-> log.recipients,
   candidate_ids |-> log.candidate_ids, is_urgent |-> log.is_urgent,
   sent_at |-> now, follow_up_count |-> log.follow_up_count + 1,
   next_follow_up_date |-> NoDate,
   message_id |-> log_id, thread_id |-> <<log_id, log.company_id>>,
   in_reply_to |-> log.message_id, parent_outreach_log |-> parent_id,
   response_received |-> FALSE, response_type |-> NoType,
   templates |-> TemplateSet(log.is_urgent)]

FollowUpLog(parent_id, log, email_type, log_id) ==
  [intern_role_id |-> log.intern_role_id, company_id |-> log.company_id,
   email_type |-> email_type, recipients |-> log.recipients,
   candidate_ids |-> log.candidate_ids, is_urgent |-> log.is_urgent,
   sent_at |-> now, follow_up_count |-> log.follow_up_count + 1,
   next_follow_up_date |-> NoDate,
   message_id |-> log_id, thread_id |-> log.thread_id,
   in_reply_to |-> log.message_id, parent_outreach_log |-> parent_id,
   response_received |-> FALSE, response_type |-> NoType,
   templates |-> TemplateSet(log.is_urgent)]

\* The tables after send_follow_up_email(task t, log): log is the copy of the
\* parent read by the sweep's query, and outreach_log.save() writes it back.
send_follow_up_email(d, t, log, ext) ==
  LET result == FollowUpResult(log, ext)
      parent_id == d.tasks[t].outreach_log
  IN  IF result.status = "success"
        THEN [d EXCEPT
                !.logs = Append([d.logs EXCEPT ![parent_id] =
                                   [log EXCEPT !.follow_up_count = @ + 1]],
                                FollowUpLog(parent_id, log, d.tasks[t].follow_up_type,
                                            Len(d.logs) + 1)),
                !.tasks = CompleteTask(d.tasks, t)]
      ELSE IF FollowUpCompletesTask(result)
        THEN [d EXCEPT !.tasks = CompleteTask(d.tasks, t)]
      ELSE d

\* CandidateOutreachHistory rows of candidate c: the roles already tried
TriedRoles(hist, c) == {h.intern_role_id : h \in {x \in hist : x.contact_id = c}}

RECURSIVE TopRoles(_, _, _)
TopRoles(S, c, limit) ==
  IF S = {} \/ limit = 0 THEN <<>>
  ELSE LET r == CHOOSE x \in S : \A o \in S \ {x} :
                  \/ job_matches[c][x] > job_matches[c][o]
                  \/ job_matches[c][x] = job_matches[c][o] /\ x < o
       IN  <<r>> \o TopRoles(S \ {r}, c, limit - 1)

\* Faulty variant: the query is not cut at the limit.
get_next_roles_unlimited(hist, c) ==
  TopRoles({r \in MatchedRoles : job_matches[c][r] > 0 /\ r \notin TriedRoles(hist, c)},
           c, Cardinality(MatchedRoles))

\* JobMatch.objects.filter(contact_id=c, status='active')
\*   .exclude(intern_role_id__in=tried_roles).order_by('-match_score')[:limit]
get_next_roles_for_candidate(hist, c) ==
  TopRoles({r \in MatchedRoles : job_matches[c][r] > 0 /\ r \notin TriedRoles(hist, c)},
           c, NEXT_ROLES_LIMIT)

\* The (candidate, role) pairs move_candidates_to_next_roles walks through.
\* A dispatch for one candidate writes history rows of that candidate only, so
\* the next roles of every candidate can be read when the step starts.
RECURSIVE NextPairs(_, _)
NextPairs(hist, cands) ==
  IF cands = <<>> THEN <<>>
  ELSE LET roles == get_next_roles_for_candidate(hist, cands[1])
       IN  [i \in 1..Len(roles) |-> <<cands[1], roles[i]>>]
             \o NextPairs(hist, Tail(cands))

\* Faulty variant: the history rows are updated only when a new outreach was
\* logged during the move.
FinishMoveIfStarted(d, t, log) ==
  LET parent_id == d.tasks[t].outreach_log
      ids == {log.candidate_ids[i] : i \in 1..Len(log.candidate_ids)}
      started == \E l \in 1..Len(d.logs) : l > parent_id /\ d.logs[l].sent_at = now
  IN  [d EXCEPT
         !.tasks = CompleteTask(d.tasks, t),
         !.logs = [d.logs EXCEPT ![parent_id] =
                     [log EXCEPT !.response_type = "moved_to_next"]],
         !.hist = {IF started /\ h.outreach_log = parent_id /\ h.contact_id \in ids
                     THEN [h EXCEPT !.status = "moved_to_next"] ELSE h : h \in d.hist}]

\* The end of move_candidates_to_next_roles: task.save(), outreach_log.save()
\* of the sweep's copy, and the update of the history rows of the log.
FinishMove(d, t, log) ==
  LET parent_id == d.tasks[t].outreach_log
      ids == {log.candidate_ids[i] : i \in 1..Len(log.candidate_ids)}
  IN  [d EXCEPT
         !.tasks = CompleteTask(d.tasks, t),
         !.logs = [d.logs EXCEPT ![parent_id] =
                     [log EXCEPT !.response_type = "moved_to_next"]],
         !.hist = {IF h.outreach_log = parent_id /\ h.contact_id \in ids
                     THEN [h EXCEPT !.status = "moved_to_next"] ELSE h : h \in d.hist}]

\* Faulty variant: the filter on the log is missing.
TasksToCancelOfAnyLog(tasks, log_id) ==
  {t \in 1..Len(tasks) : ~tasks[t].completed}

\* The FollowUpTask rows mark_response_received cancels.
TasksToCancel(tasks, log_id) ==
  {t \in 1..Len(tasks) : tasks[t].outreach_log = log_id /\ ~tasks[t].completed}

\* The tables after mark_response_received(log_id, response_type).
mark_response_received(d, log_id, response_type) ==
  LET log == d.logs[log_id]
      ids == {log.candidate_ids[i] : i \in 1..Len(log.candidate_ids)}
      cancel == TasksToCancel(d.tasks, log_id)
  IN  [d EXCEPT
         !.logs = [d.logs EXCEPT ![log_id] =
                     [log EXCEPT !.response_received = TRUE,
                                 !.response_type = response_type]],
         !.hist = {IF h.outreach_log = log_id /\ h.contact_id \in ids
                     THEN [h EXCEPT !.response_received = TRUE,
                                    !.response_type = response_type,
                                    !.status = "responded"]
                     ELSE h : h \in d.hist},
         !.tasks = [t \in 1..Len(d.tasks) |->
                      IF t \in cancel
                        THEN [d.tasks[t] EXCEPT !.completed = TRUE]
                        ELSE d.tasks[t]]]

\* OutreachLog.objects.get(message_id=m): the id of the log, NoLog if absent
LogByMessageId(logs, m) ==
  IF \E l \in 1..Len(logs) : logs[l].message_id = m
    THEN CHOOSE l \in 1..Len(logs) : logs[l].message_id = m
    ELSE NoLog

RECURSIVE FirstReference(_, _)
FirstReference(logs, references) ==
  IF references = <<>> THEN NoLog
  ELSE IF LogByMessageId(logs, references[1]) # NoLog
    THEN LogByMessageId(logs, references[1])
  ELSE FirstReference(logs, Tail(references))

\* in_reply_to = NoLog stands for a missing In-Reply-To header
find_outreach_log(logs, in_reply_to, references) ==
  IF in_reply_to # NoLog /\ LogByMessageId(logs, in_reply_to) # NoLog
    THEN LogByMessageId(logs, in_reply_to)
    ELSE FirstReference(logs, references)

\* The tables after process_single_email found log_id for the reply.
process_single_email(d, log_id) ==
  [d EXCEPT !.logs = [d.logs EXCEPT ![log_id] =
                        [@ EXCEPT !.response_received = TRUE,
                                  !.response_type = "reply"]]]

\* ------------------------------------------------------ job matching data
Tags == {"finance", "software"}

\* Contact rows: the industry interests of the candidates, already
\* normalised and deduplicated.
ContactIndustries ==
  [c \in Cands |->
     IF c = 1 THEN [industry_1 |-> {"finance"}, industry_2 |-> {"software"}]
              ELSE [industry_1 |-> {"software"}, industry_2 |-> {}]]

\* Skill rows against the role texts: how many skills of the contact occur
\* in the requirements of the role.
MatchedSkills == [c \in Cands |-> [r \in Roles |-> IF c = 1 /\ r = 1 THEN 3 ELSE 0]]

\* Contact start date inside the two weeks before a confirmed deal's end.
StartDatePriority == [c \in Cands |-> [r \in Roles |-> FALSE]]

\* Contact location against role location.
LocationMatch == [c \in Cands |-> [r \in Roles |-> TRUE]]

RoleWorkPolicy == [r \in Roles |-> "Hybrid"]

\* Rejected / closed deals of each role as the CRM API reports them.
RejectedDeals == [r \in Roles |-> IF r = 2 THEN 2 ELSE 0]

NoSync == -1

\* The Account rows: the company of the roles and one without a role.
Accounts == Companies \cup {"coB"}

\* Values of the Account.no_employees column (a CharField): empty, not a
\* number, and numbers as the CRM writes them.
EmployeeCounts == {"", "n/a", "-4", "0", "4", "8", "20"}

\* int(account.no_employees), defined on the strings it does not reject.
IntValue ==
  [n \in {"-4", "0", "4", "8", "20"} |->
     CASE n = "-4" -> -4 [] n = "0" -> 0 [] n = "4" -> 4 [] n = "8" -> 8 [] OTHER -> 20]

\* Account, Deal and InternRole columns the matcher reads.  accounts: the ids
\* with an Account row; confirmed_deals: the company's deals in a Role Confirmed
\* stage; active_deals: those whose stage is one of the four interview stages
\* as written; loose_active_deals: those whose stage only contains one of them
\* or differs in case.
CrmTable ==
  [accounts |-> Accounts,
   is_dnc |-> [co \in Accounts |-> FALSE],
   follow_up_day |-> [co \in Accounts |-> 9],
   no_employees |-> [co \in Accounts |-> "20"],
   confirmed_deals |-> [co \in Accounts |-> 0],
   active_deals |-> [co \in Accounts |-> 0],
   loose_active_deals |-> [co \in Accounts |-> 0],
   intern_company_id |-> RoleCompany,
   role_tags |-> [r \in Roles |-> Tags]]

JobMatchRow(id, c, r, score, status) ==
  [id |-> id, contact_id |-> c, intern_role_id |-> r, match_score |-> score,
   status |-> status]

\* The rows of MatchTable.
StoredRows ==
  {JobMatchRow(1, 1, 1, MatchTable[1][1], "active"),
   JobMatchRow(2, 1, 2, MatchTable[1][2], "active"),
   JobMatchRow(3, 2, 1, MatchTable[2][1], "active"),
   JobMatchRow(4, 2, 2, MatchTable[2][2], "active")}

NoMatchers == <<>>

\* No recompute of the candidate has finished yet.
NoRecompute == [path |-> "none", matches |-> <<>>, no_industry |-> {}, pairs |-> {},
                fresh |-> FALSE, chained |-> FALSE]

\* No dry run has returned yet.
NoPools ==
  [status |-> "", max_roles |-> 0, role_candidates |-> <<>>, urgent_role_candidates |-> <<>>]

\* No call of calculate_match_score is under observation.
NoScoring == [args |-> <<>>, score |-> -1]

InitMatching ==
  /\ scoring = NoScoring
  /\ pools = NoPools
  /\ match_rows = StoredRows
  /\ crm = CrmTable
  /\ deal_sync = [r \in Roles |-> NoSync]
  /\ matchers = NoMatchers
  /\ last_recompute = [c \in Cands |-> NoRecompute]
  /\ match_steps = [recomputes |-> 0, changes |-> 0]

\* ---------------------------------------------------------------- initial
\* No concurrent invocation is in progress.
NoWorkers == <<>>

NoResult == Result("none", "none", "")

Init ==
  /\ workers = NoWorkers
  /\ InitMatching
  /\ now = 0
  /\ contacts = Cands
  /\ job_matches = MatchTable
  /\ outreach_logs = <<>>
  /\ follow_up_tasks = <<>>
  /\ outreach_history = {}
  /\ email_limiter = [co \in Companies |-> NoLimiter]
  /\ pc = "idle"
  /\ pass_queue = <<>>
  /\ sweep_queue = <<>>
  /\ move_queue = <<>>
  /\ last_dispatch = NoResult
  /\ last_task = NoResult
  /\ moved = {}
  /\ processed = {}

SetTables(d) ==
  /\ outreach_logs' = d.logs
  /\ outreach_history' = d.hist
  /\ follow_up_tasks' = d.tasks
  /\ email_limiter' = d.lim

\* The logs on which a response has been recorded.
Responded == {l \in LogIds : outreach_logs[l].response_received}

\* ----------------------------------------------------------------- actions
\* Time passes between invocations, up to max_ticks steps of the clock.
TickWithin(max_ticks) ==
  /\ UNCHANGED <<workers, matching>>
  /\ pc = "idle"
  /\ now + TickHours <= max_ticks * TickHours
  /\ now' = now + TickHours
  /\ UNCHANGED <<contacts, job_matches, db, pc, pass_queue, sweep_queue,
                 move_queue, moved, processed>>
  /\ last_dispatch' = NoResult
  /\ last_task' = NoResult

Tick == TickWithin(MaxTicks)

\* A Contact row is deleted through the admin site.
AdminDeleteContact ==
  /\ UNCHANGED <<workers, matching>>
  /\ Cardinality(Cands \ contacts) < MaxDeleted
  /\ \E c \in contacts : contacts' = contacts \ {c}
  /\ UNCHANGED <<now, job_matches, db, pc, pass_queue, sweep_queue,
                 move_queue, moved, processed>>
  /\ last_dispatch' = NoResult
  /\ last_task' = NoResult

\* "if max_roles and processed_count >= max_roles: break"; 0 stands for None
Truncate(grouping, max_roles) ==
  IF max_roles > 0 /\ Len(grouping) > max_roles
    THEN SubSeq(grouping, 1, max_roles) ELSE grouping

StartPass(grouping, max_roles) ==
  /\ UNCHANGED <<workers, matching>>
  /\ pc = "idle"
  /\ grouping # <<>>
  /\ pass_queue' = Truncate(grouping, max_roles)
  /\ pc' = "pass"
  /\ last_dispatch' = NoResult
  /\ last_task' = NoResult
  /\ UNCHANGED <<now, contacts, job_matches, db, sweep_queue, move_queue,
                 moved, processed>>

\* run_batch_outreach up to its loop: the normal pool-building pass
RunBatchOutreach ==
  \E tie \in TieOrders, max_roles \in MaxRolesInputs :
    StartPass(get_top_candidates_by_role(tie), max_roles)

\* run_urgent_outreach_batch up to its loop: the urgent pool-building pass
RunUrgentOutreachBatch ==
  \E tie \in TieOrders, max_roles \in MaxRolesInputs :
    StartPass(get_urgent_candidates_by_role(tie), max_roles)

\* One iteration of the batch loop: process_outreach_for_role for the next
\* role, while the OutreachLog table holds fewer than max_logs rows
DispatchRoleWithin(max_logs) ==
  /\ UNCHANGED <<workers, matching>>
  /\ pc = "pass"
  /\ Len(outreach_logs) < max_logs
  /\ \E ext \in DispatchOutcomes :
       LET head == pass_queue[1]
       IN  /\ SetTables(process_outreach_for_role(Tables, head.role_id,
                                                  head.candidates, ext))
           /\ last_dispatch' = DispatchResult(Tables, head.role_id,
                                              head.candidates, ext)
  /\ pass_queue' = Tail(pass_queue)
  /\ pc' = IF Tail(pass_queue) = <<>> THEN "idle" ELSE "pass"
  /\ last_task' = NoResult
  /\ UNCHANGED <<now, contacts, job_matches, sweep_queue, move_queue,
                 moved, processed>>

DispatchRole == DispatchRoleWithin(MaxLogs)

\* process_pending_follow_ups up to its loop: the query for the due tasks
StartSweep ==
  /\ UNCHANGED <<workers, matching>>
  /\ pc = "idle"
  /\ pending_tasks # <<>>
  /\ sweep_queue' = pending_tasks
  /\ pc' = "sweep"
  /\ last_dispatch' = NoResult
  /\ last_task' = NoResult
  /\ UNCHANGED <<now, contacts, job_matches, db, pass_queue, move_queue,
                 moved, processed>>

AfterTask == IF Tail(sweep_queue) = <<>> THEN "idle" ELSE "sweep"

\* process_follow_up_task for a task whose log already has a response
SkipRespondedTask ==
  /\ UNCHANGED <<workers, matching>>
  /\ pc = "sweep"
  /\ ResponseAlreadyReceived(sweep_queue[1].outreach_log)
  /\ follow_up_tasks' = CompleteTask(follow_up_tasks, sweep_queue[1].task)
  /\ last_task' = Result("task", "skipped", "response_received")
  /\ sweep_queue' = Tail(sweep_queue)
  /\ pc' = AfterTask
  /\ last_dispatch' = NoResult
  /\ processed' = processed \cup {sweep_queue[1].task}
  /\ UNCHANGED <<now, contacts, job_matches, outreach_logs, outreach_history,
                 email_limiter, pass_queue, move_queue, moved>>

\* process_follow_up_task -> send_follow_up_email
SendFollowUpWithin(max_logs) ==
  /\ UNCHANGED <<workers, matching>>
  /\ pc = "sweep"
  /\ ~ResponseAlreadyReceived(sweep_queue[1].outreach_log)
  /\ follow_up_tasks[sweep_queue[1].task].follow_up_type \in {"follow_up", "final"}
  /\ Len(outreach_logs) < max_logs
  /\ \E ext \in FollowUpOutcomes :
       /\ SetTables(send_follow_up_email(Tables, sweep_queue[1].task,
                                         sweep_queue[1].outreach_log, ext))
       /\ last_task' = FollowUpResult(sweep_queue[1].outreach_log, ext)
  /\ sweep_queue' = Tail(sweep_queue)
  /\ pc' = AfterTask
  /\ last_dispatch' = NoResult
  /\ processed' = processed \cup {sweep_queue[1].task}
  /\ UNCHANGED <<now, contacts, job_matches, pass_queue, move_queue, moved>>

SendFollowUp == SendFollowUpWithin(MaxLogs)

FinishMoveStep(d) ==
  /\ SetTables(FinishMove(d, sweep_queue[1].task, sweep_queue[1].outreach_log))
  /\ moved' = moved \cup {follow_up_tasks[sweep_queue[1].task].outreach_log}
  /\ last_task' = Result("task", "success", "moved_to_next")
  /\ move_queue' = <<>>
  /\ sweep_queue' = Tail(sweep_queue)
  /\ pc' = AfterTask

\* process_follow_up_task -> move_candidates_to_next_roles, up to the first
\* call of initiate_outreach_for_next_role (to its end when there is none)
StartMove ==
  /\ UNCHANGED <<workers, matching>>
  /\ pc = "sweep"
  /\ ~ResponseAlreadyReceived(sweep_queue[1].outreach_log)
  /\ follow_up_tasks[sweep_queue[1].task].follow_up_type = "move_to_next"
  /\ LET pairs == NextPairs(outreach_history, sweep_queue[1].outreach_log.candidate_ids)
     IN  IF pairs = <<>>
           THEN FinishMoveStep(Tables)
           ELSE /\ move_queue' = pairs
                /\ pc' = "move"
                /\ last_task' = NoResult
                /\ UNCHANGED <<db, sweep_queue, moved>>
  /\ last_dispatch' = NoResult
  /\ processed' = processed \cup {sweep_queue[1].task}
  /\ UNCHANGED <<now, contacts, job_matches, pass_queue>>

\* The result of initiate_outreach_for_next_role(c, r)
InitiateResult(d, c, r, ext) ==
  IF c \notin contacts THEN Result("outreach", "failed", "contact_not_found")
  ELSE DispatchResult(d, r, <<c>>, ext)

initiate_outreach_for_next_role(d, c, r, ext) ==
  IF c \notin contacts THEN d ELSE process_outreach_for_role(d, r, <<c>>, ext)

\* One initiate_outreach_for_next_role call of move_candidates_to_next_roles;
\* the last one runs on to the end of the handler.
MoveNextWithin(max_logs) ==
  /\ UNCHANGED <<workers, matching>>
  /\ pc = "move"
  /\ Len(outreach_logs) < max_logs
  /\ \E ext \in DispatchOutcomes :
       LET c == move_queue[1][1]
           r == move_queue[1][2]
           d == initiate_outreach_for_next_role(Tables, c, r, ext)
       IN  /\ last_dispatch' = InitiateResult(Tables, c, r, ext)
           /\ IF Tail(move_queue) = <<>>
                THEN FinishMoveStep(d)
                ELSE /\ SetTables(d)
                     /\ move_queue' = Tail(move_queue)
                     /\ last_task' = NoResult
                     /\ UNCHANGED <<pc, sweep_queue, moved>>
  /\ UNCHANGED <<now, contacts, job_matches, pass_queue, processed>>

MoveNext == MoveNextWithin(MaxLogs)

\* mark_response_received(outreach_log_id, response_type) on an existing log
MarkResponseReceived ==
  /\ UNCHANGED <<workers, matching>>
  /\ pc = "idle"
  /\ Cardinality(Responded) < MaxResponses
  /\ \E log_id \in LogIds, response_type \in ResponseTypes :
       SetTables(mark_response_received(Tables, log_id, response_type))
  /\ UNCHANGED <<now, contacts, job_matches, pc, pass_queue, sweep_queue,
                 move_queue, moved, processed>>
  /\ last_dispatch' = NoResult
  /\ last_task' = NoResult

\* process_single_email for a reply whose headers name a stored message id
IngestReply ==
  /\ UNCHANGED <<workers, matching>>
  /\ pc = "idle"
  /\ Cardinality(Responded) < MaxResponses
  /\ \E in_reply_to \in {NoLog} \cup LogIds \cup {Len(outreach_logs) + 1},
        references \in {<<>>} \cup {<<m>> : m \in LogIds} :
       LET log_id == find_outreach_log(outreach_logs, in_reply_to, references)
       IN  /\ log_id # NoLog
           /\ SetTables(process_single_email(Tables, log_id))
  /\ UNCHANGED <<now, contacts, job_matches, pc, pass_queue, sweep_queue,
                 move_queue, moved, processed>>
  /\ last_dispatch' = NoResult
  /\ last_task' = NoResult

Next ==
  \/ Tick
  \/ AdminDeleteContact
  \/ RunBatchOutreach
  \/ RunUrgentOutreachBatch
  \/ DispatchRole
  \/ StartSweep
  \/ SkipRespondedTask
  \/ SendFollowUp
  \/ StartMove
  \/ MoveNext
  \/ MarkResponseReceived
  \/ IngestReply

Spec == Init /\ [][Next]_vars

\* ------------------------------------------------- runs across a week end
\* Saturday 00:00 of the first week: the next Monday starts two days later.
SaturdayStart == 5 * HoursPerDay

InitWeekend ==
  /\ workers = NoWorkers
  /\ InitMatching
  /\ now = SaturdayStart
  /\ contacts = Cands
  /\ job_matches = MatchTable
  /\ outreach_logs = <<>>
  /\ follow_up_tasks = <<>>
  /\ outreach_history = {}
  /\ email_limiter = [co \in Companies |-> NoLimiter]
  /\ pc = "idle"
  /\ pass_queue = <<>>
  /\ sweep_queue = <<>>
  /\ move_queue = <<>>
  /\ last_dispatch = NoResult
  /\ last_task = NoResult
  /\ moved = {}
  /\ processed = {}

\* Time passes between invocations.
TickWeekend ==
  /\ UNCHANGED <<workers, matching>>
  /\ pc = "idle"
  /\ now + TickHours <= SaturdayStart + MaxTicks * TickHours
  /\ now' = now + TickHours
  /\ UNCHANGED <<contacts, job_matches, db, pc, pass_queue, sweep_queue,
                 move_queue, moved, processed>>
  /\ last_dispatch' = NoResult
  /\ last_task' = NoResult

NextWeekend ==
  \/ TickWeekend
  \/ AdminDeleteContact
  \/ RunBatchOutreach
  \/ RunUrgentOutreachBatch
  \/ DispatchRole
  \/ StartSweep
  \/ SkipRespondedTask
  \/ SendFollowUp
  \/ StartMove
  \/ MoveNext
  \/ MarkResponseReceived
  \/ IngestReply

SpecWeekend == InitWeekend /\ [][NextWeekend]_vars

\* ------------------------------------- two batches running at the same time
\* The HTTP-triggered batch and the cron batch.
Batches == {1, 2}

IdleBatch == [pc |-> "idle", role_id |-> 0, candidates |-> <<>>, limiter |-> NoLimiter]

\* The state of the sequential invocations, which none of them is running.
sequential == <<pc, pass_queue, sweep_queue, move_queue, last_dispatch,
                last_task, moved, processed>>

AllIdle == \A w \in DOMAIN workers : workers[w].pc = "idle"

InitBatches ==
  /\ workers = [w \in Batches |-> IdleBatch]
  /\ InitMatching
  /\ now = SaturdayStart
  /\ contacts = Cands
  /\ job_matches = MatchTable
  /\ outreach_logs = <<>>
  /\ follow_up_tasks = <<>>
  /\ outreach_history = {}
  /\ email_limiter = [co \in Companies |-> NoLimiter]
  /\ pc = "idle"
  /\ pass_queue = <<>>
  /\ sweep_queue = <<>>
  /\ move_queue = <<>>
  /\ last_dispatch = NoResult
  /\ last_task = NoResult
  /\ moved = {}
  /\ processed = {}

\* Time passes while no batch is running.
TickBatches ==
  /\ AllIdle
  /\ now + TickHours <= SaturdayStart + MaxTicks * TickHours
  /\ now' = now + TickHours
  /\ UNCHANGED <<contacts, job_matches, db, sequential, workers, matching>>

\* run_batch_outreach of batch w up to process_outreach_for_role of its
\* first role
BatchStart(w) ==
  /\ UNCHANGED matching
  /\ workers[w].pc = "idle"
  /\ \E tie \in TieOrders :
       LET grouping == get_top_candidates_by_role(tie)
       IN  /\ grouping # <<>>
           /\ workers' = [workers EXCEPT ![w] =
                            [pc |-> "check", role_id |-> grouping[1].role_id,
                             candidates |-> grouping[1].candidates,
                             limiter |-> NoLimiter]]
  /\ UNCHANGED <<now, contacts, job_matches, db, sequential>>

\* process_outreach_for_role up to the weekly check
BatchCheck(w) ==
  /\ UNCHANGED matching
  /\ workers[w].pc = "check"
  /\ LET co == RoleCompany[workers[w].role_id]
         pass == IsUrgent(workers[w].candidates)
                   \/ can_send_email_to_company(email_limiter, co)
     IN  workers' = [workers EXCEPT ![w] =
                       IF pass THEN [@ EXCEPT !.pc = "send"] ELSE IdleBatch]
  /\ UNCHANGED <<now, contacts, job_matches, db, sequential>>

\* process_outreach_for_role from the contact lookup to log_outreach_sent,
\* up to its call of update_email_limiter
BatchSend(w) ==
  /\ UNCHANGED matching
  /\ workers[w].pc = "send"
  /\ Len(outreach_logs) < MaxLogs
  /\ \E ext \in DispatchOutcomes :
       IF ext = "success"
         THEN LET r == workers[w].role_id
                  cands == workers[w].candidates
                  log_id == Len(outreach_logs) + 1
              IN  /\ outreach_logs' =
                       Append(outreach_logs,
                              InitialLog(r, cands, IsUrgent(cands), log_id))
                  /\ outreach_history' = AddHistory(outreach_history, cands, r, log_id)
                  /\ follow_up_tasks' = follow_up_tasks \o schedule_follow_ups(log_id)
                  /\ workers' = [workers EXCEPT ![w].pc = "limiter_read"]
         ELSE /\ workers' = [workers EXCEPT ![w] = IdleBatch]
              /\ UNCHANGED <<outreach_logs, outreach_history, follow_up_tasks>>
  /\ UNCHANGED <<now, contacts, job_matches, email_limiter, sequential>>

\* update_email_limiter: EmailLimiter.objects.get_or_create(...)
BatchLimiterRead(w) ==
  /\ UNCHANGED matching
  /\ workers[w].pc = "limiter_read"
  /\ LET co == RoleCompany[workers[w].role_id]
     IN  IF ~email_limiter[co].exists
           THEN /\ email_limiter' =
                     [email_limiter EXCEPT ![co] =
                        [exists |-> TRUE, week_start_date |-> WeekStart,
                         emails_sent_this_week |-> 1]]
                /\ workers' = [workers EXCEPT ![w] = IdleBatch]
           ELSE /\ workers' = [workers EXCEPT ![w].pc = "limiter_write",
                                              ![w].limiter = email_limiter[co]]
                /\ UNCHANGED email_limiter
  /\ UNCHANGED <<now, contacts, job_matches, outreach_logs, follow_up_tasks,
                 outreach_history, sequential>>

\* update_email_limiter: "if not created:" ... limiter.save()
BatchLimiterWrite(w) ==
  /\ UNCHANGED matching
  /\ workers[w].pc = "limiter_write"
  /\ LET co == RoleCompany[workers[w].role_id]
         limiter == workers[w].limiter
     IN  email_limiter' =
           [email_limiter EXCEPT ![co] =
              IF limiter.week_start_date < WeekStart
                THEN [limiter EXCEPT !.week_start_date = WeekStart,
                                     !.emails_sent_this_week = 1]
                ELSE [limiter EXCEPT !.emails_sent_this_week = @ + 1]]
  /\ workers' = [workers EXCEPT ![w] = IdleBatch]
  /\ UNCHANGED <<now, contacts, job_matches, outreach_logs, follow_up_tasks,
                 outreach_history, sequential>>

NextBatches ==
  \/ TickBatches
  \/ \E w \in Batches : BatchStart(w)
  \/ \E w \in Batches : BatchCheck(w)
  \/ \E w \in Batches : BatchSend(w)
  \/ \E w \in Batches : BatchLimiterRead(w)
  \/ \E w \in Batches : BatchLimiterWrite(w)

SpecBatches == InitBatches /\ [][NextBatches]_vars

\* --------------------------------------------------------------- job matcher
Min2(a, b) == IF a < b THEN a ELSE b

Max2(a, b) == IF a > b THEN a ELSE b

\* Exact matching of role tags against interests; no tag of Tags is a
\* substring of, or similar to, another, so the partial and fuzzy passes find
\* nothing the exact pass did not.
check_industry_match_traditional(contact_interests, role_tags) ==
  IF contact_interests = {} \/ role_tags = {} THEN <<FALSE, {}>>
  ELSE LET matched_items == {tag \in role_tags : tag \in contact_interests}
       IN  <<matched_items # {}, matched_items>>

\* No OpenAI client is configured: the matcher falls back to the traditional
\* comparison.
check_industry_match(contact_interests, role_tags) ==
  IF contact_interests = {} \/ role_tags = {} THEN <<FALSE, {}>>
  ELSE check_industry_match_traditional(contact_interests, role_tags)

check_location_match(c, r) == LocationMatch[c][r]

check_skill_match(c, r) == <<MatchedSkills[c][r] > 0, MatchedSkills[c][r]>>

\* Faulty variant: a flag on any account excludes the role.
check_any_company_dnc_status(data, r) == \E co \in DOMAIN data.is_dnc : data.is_dnc[co]

\* TRUE when the company is to be excluded.
check_company_dnc_status(data, r) ==
  /\ data.intern_company_id[r] \in data.accounts
  /\ data.is_dnc[data.intern_company_id[r]]

\* TRUE when the company is to be excluded: follow-up date empty, today or
\* past.  No recompute path and no pool query calls it.
check_company_follow_up_date(data, follow_today, r) ==
  \/ data.follow_up_day[data.intern_company_id[r]] = NoDate
  \/ data.follow_up_day[data.intern_company_id[r]] <= follow_today

\* TRUE when the company is to be excluded: confirmed deals / employees > 1/4.
\* Account.DoesNotExist returns False; an empty count and the ValueError of
\* int() return True; the ZeroDivisionError of the ratio is caught by
\* "except Exception" and returns False.
check_intern_to_employee_ratio(data, r) ==
  LET co == data.intern_company_id[r]
      no_employees == data.no_employees[co]
  IN  IF co \notin data.accounts THEN FALSE
      ELSE IF no_employees = "" THEN TRUE
      ELSE IF no_employees \notin DOMAIN IntValue THEN TRUE
      ELSE IF data.confirmed_deals[co] = 0 THEN FALSE
      ELSE IF IntValue[no_employees] = 0 THEN FALSE
      ELSE IF IntValue[no_employees] < 0 THEN FALSE
      ELSE 4 * data.confirmed_deals[co] > IntValue[no_employees]

\* TRUE when the company is to be excluded: more than 3 active deals.  The
\* count of stage__in; only when that is 0, the count of the icontains query.
check_active_deals_limit(data, r) ==
  LET co == data.intern_company_id[r]
      active_deals_count ==
        IF data.active_deals[co] = 0
          THEN data.active_deals[co] + data.loose_active_deals[co]
          ELSE data.active_deals[co]
  IN  active_deals_count > 3

check_start_date_priority(c, r) == StartDatePriority[c][r]

\* Faulty variant: the sum is returned without the clamp.
calculate_match_score_unclamped(industry_1_match, industry_2_match, skill_match, matched_industry_1, matched_industry_2, matched_skills, start_date_priority, rejected_deals_count) ==
  (IF industry_1_match THEN 120 * Min2(1, matched_industry_1) ELSE 0)
  + (IF industry_2_match THEN 60 * Min2(1, matched_industry_2) ELSE 0)
  + (IF skill_match THEN 25 * Min2(3, matched_skills) ELSE 0)
  + (IF start_date_priority THEN 45 ELSE 0)
  - (IF rejected_deals_count >= 2 THEN 45 ELSE 0)

\* The weights 0.40, 0.20, 0.25, 0.15 and the penalty 0.15 in score units;
\* min(1.0, len(matched) / 1.0) is Min2(1, n) and min(1.0, len(matched) / 3.0)
\* is Min2(3, n) / 3.  The sums are exact here; the doubles of the program
\* carry a rounding error below 10^-15 on top of them.
calculate_match_score(industry_1_match, industry_2_match, skill_match, matched_industry_1, matched_industry_2, matched_skills, start_date_priority, rejected_deals_count) ==
  LET score ==
        (IF industry_1_match THEN 120 * Min2(1, matched_industry_1) ELSE 0)
        + (IF industry_2_match THEN 60 * Min2(1, matched_industry_2) ELSE 0)
        + (IF skill_match THEN 25 * Min2(3, matched_skills) ELSE 0)
        + (IF start_date_priority THEN 45 ELSE 0)
        - (IF rejected_deals_count >= 2 THEN 45 ELSE 0)
  IN  Max2(0, Min2(ScoreUnit, score))

\* The answers the CRM deals API may give for the roles: the count, or a
\* failure, which is recorded as 0.
ApiAnswers == {api \in [Roles -> 0..2] : \A r \in Roles : api[r] \in {0, RejectedDeals[r]}}

\* The RoleDealSync table after the deals of every role were synced: a cached
\* row is used as it is, a missing one is created from the API answer.
sync_role_deals(sync, api) ==
  [r \in Roles |-> IF sync[r] # NoSync THEN sync[r] ELSE api[r]]

\* The match of candidate c with role r as the scoring loop computes it.
RoleMatch(data, sync, c, r) ==
  LET m1 == check_industry_match(ContactIndustries[c].industry_1, data.role_tags[r])
      m2 == check_industry_match(ContactIndustries[c].industry_2, data.role_tags[r])
      sk == check_skill_match(c, r)
  IN  [contact_id |-> c, intern_role_id |-> r,
       match_score |-> calculate_match_score(m1[1], m2[1], sk[1],
                                             Cardinality(m1[2]), Cardinality(m2[2]), sk[2],
                                             check_start_date_priority(c, r), sync[r]),
       industry_1_match |-> m1[1], industry_2_match |-> m2[1]]

\* The roles the scoring loop reaches the industry comparison for.
CompanyGates(data, c, r) ==
  /\ RoleWorkPolicy[r] \in {"Hybrid", "Office-based"}
  /\ ~check_company_dnc_status(data, r)
  /\ ~check_intern_to_employee_ratio(data, r)
  /\ ~check_active_deals_limit(data, r)
  /\ check_location_match(c, r)

\* The roles skipped for want of an industry match in either bucket.
NoIndustryMatch(data, sync, existing, c) ==
  {r \in Roles : /\ c \in existing
                 /\ CompanyGates(data, c, r)
                 /\ ~RoleMatch(data, sync, c, r).industry_1_match
                 /\ ~RoleMatch(data, sync, c, r).industry_2_match}

\* The gates of the scoring loop, in its order.
RoleQualifies(data, sync, c, r) ==
  /\ CompanyGates(data, c, r)
  /\ RoleMatch(data, sync, c, r).industry_1_match \/ RoleMatch(data, sync, c, r).industry_2_match
  /\ RoleMatch(data, sync, c, r).match_score > 30

\* matches.sort(key=match_score, reverse=True): stable, roles in id order.
RECURSIVE SortByScore(_)
SortByScore(S) ==
  IF S = {} THEN <<>>
  ELSE LET m == CHOOSE x \in S : \A o \in S \ {x} :
                  \/ x.match_score > o.match_score
                  \/ x.match_score = o.match_score /\ x.intern_role_id < o.intern_role_id
       IN  <<m>> \o SortByScore(S \ {m})

find_matches_for_contact(data, sync, existing, c) ==
  IF c \notin existing THEN <<>>
  ELSE SortByScore({RoleMatch(data, sync, c, r) : r \in {x \in Roles : RoleQualifies(data, sync, c, x)}})

\* Columns of the JobMatch model.
JobMatchFields ==
  {"id", "contact_id", "intern_role_id", "match_score", "industry_match", "location_match",
   "work_policy_match", "skill_match", "matched_industries", "matched_skills",
   "match_reason", "status", "created_at", "updated_at"}

\* Keyword arguments both recompute paths pass to JobMatch.objects.create.
CreateKwargs ==
  {"contact_id", "intern_role_id", "match_score", "industry_1_match", "industry_2_match",
   "skill_match", "matched_industry_1", "matched_industry_2", "matched_skills",
   "match_reason", "status"}

\* The primary key the database gives the next row: above every key in the
\* table or held by an instance in memory.
NextId(rows, held) ==
  LET used == {x.id : x \in rows} \cup held \cup {Cardinality(StoredRows)}
  IN  1 + (CHOOSE n \in used : \A k \in used : k <= n)

\* Faulty variant: the model accepts every keyword argument.
JobMatchCreateAccepted(rows, held, m) ==
  rows \cup {JobMatchRow(NextId(rows, held), m.contact_id, m.intern_role_id,
                         m.match_score, "active")}

\* JobMatch.objects.create(**kwargs) inside try / except: a keyword that is not
\* a field of the model raises TypeError before any row is written, and the
\* caller logs it and goes on.
JobMatchCreate(rows, held, m) ==
  IF CreateKwargs \subseteq JobMatchFields
    THEN rows \cup {JobMatchRow(NextId(rows, held), m.contact_id, m.intern_role_id,
                                m.match_score, "active")}
    ELSE rows

\* JobMatch.objects.filter(contact_id=.., intern_role_id=..).first(): the
\* primary key of the first such row, 0 for none.
find_existing(rows, m) ==
  LET S == {x \in rows : /\ x.contact_id = m.contact_id
                        /\ x.intern_role_id = m.intern_role_id}
  IN  IF S = {} THEN 0 ELSE (CHOOSE x \in S : \A y \in S : x.id <= y.id).id

\* Faulty variant: the new score is added to the stored one.
UpdateAccumulating(rows, id, m) ==
  LET old == {x \in rows : x.id = id}
      base == IF old = {} THEN 0 ELSE (CHOOSE x \in old : TRUE).match_score
  IN  (rows \ old)
        \cup {JobMatchRow(id, m.contact_id, m.intern_role_id, base + m.match_score, "active")}

\* The update branch of store_matches: existing_match.save() writes the
\* model's columns of the instance read before, as an UPDATE of the row with
\* its primary key or, when that row is gone, as an INSERT with that key.
UpdateExisting(rows, id, m) ==
  {x \in rows : x.id # id}
    \cup {JobMatchRow(id, m.contact_id, m.intern_role_id, m.match_score, "active")}

\* The write of one iteration of store_matches.
store_match(rows, held, existing, m) ==
  IF existing # 0 THEN UpdateExisting(rows, existing, m)
                  ELSE JobMatchCreate(rows, held, m)

RECURSIVE CreateAll(_, _, _)
CreateAll(rows, held, ms) ==
  IF ms = <<>> THEN rows
  ELSE CreateAll(JobMatchCreate(rows, held, Head(ms)), held, Tail(ms))

\* min_score=0.2, in score units
MIN_SCORE == 60

\* The transaction of match_jobs_for_contact: delete the rows of the contact,
\* then create a row for every match with match_score >= min_score.
ReplaceMatches(rows, held, c, matches) ==
  CreateAll({x \in rows : x.contact_id # c}, held \cup {x.id : x \in rows},
            SelectSeq(matches, LAMBDA m : m.match_score >= MIN_SCORE))

\* JobMatch.objects.filter(contact_id=c, status='active')
ActiveRows(rows, c) ==
  {x \in rows : x.contact_id = c /\ x.status = "active"}

\* The (role, score) pairs of the active rows of a contact
StoredPairs(rows, c) ==
  {<<x.intern_role_id, x.match_score>> : x \in ActiveRows(rows, c)}

\* order_by('-match_score'); rows of equal score in primary-key order
RECURSIVE BestFirst(_)
BestFirst(S) ==
  IF S = {} THEN <<>>
  ELSE LET m == CHOOSE x \in S : \A o \in S \ {x} :
                  \/ x.match_score > o.match_score
                  \/ x.match_score = o.match_score /\ x.id < o.id
       IN  <<m>> \o BestFirst(S \ {m})

\* get_matches_for_contact: the active rows of the contact, best first.
get_matches_for_contact(rows, c) == BestFirst(ActiveRows(rows, c))

\* The table as the pool queries read it: the score of the active row of
\* each pair, 0 for none.
ScoreView(rows) ==
  [c \in Cands |-> [r \in Roles |->
     LET S == {x \in ActiveRows(rows, c) : x.intern_role_id = r}
     IN  IF S = {} THEN 0
         ELSE (CHOOSE x \in S : \A y \in S : x.match_score >= y.match_score).match_score]]

\* Recomputes run in the webhook's background threads and in the batch
\* command.
Threads == {1, 2}

Paths == {"match_jobs_for_contact", "process_contact_matches"}

\* matches: the matches still to store; existing: the primary key of the row
\* read for the first of them; found, no_industry: the result of the
\* scoring run; snapshot: the pairs stored when it started; fresh: no data
\* change was synced since it started; alone: no other recompute of the
\* candidate was running when it started or has started since; chained: it
\* also started right after a fresh recompute of the candidate through the
\* same path.
IdleMatcher == [pc |-> "idle", contact_id |-> 0, path |-> "none", matches |-> <<>>,
                existing |-> 0, found |-> <<>>, no_industry |-> {}, snapshot |-> {},
                fresh |-> FALSE, alone |-> FALSE, chained |-> FALSE]

InitMatch ==
  /\ workers = NoWorkers
  /\ scoring = NoScoring
  /\ pools = NoPools
  /\ match_rows = StoredRows
  /\ crm = CrmTable
  /\ deal_sync = [r \in Roles |-> NoSync]
  /\ matchers = [t \in Threads |-> IdleMatcher]
  /\ last_recompute = [c \in Cands |-> NoRecompute]
  /\ match_steps = [recomputes |-> 0, changes |-> 0]
  /\ now = SaturdayStart
  /\ contacts = Cands
  /\ job_matches = MatchTable
  /\ outreach_logs = <<>>
  /\ follow_up_tasks = <<>>
  /\ outreach_history = {}
  /\ email_limiter = [co \in Companies |-> NoLimiter]
  /\ pc = "idle"
  /\ pass_queue = <<>>
  /\ sweep_queue = <<>>
  /\ move_queue = <<>>
  /\ last_dispatch = NoResult
  /\ last_task = NoResult
  /\ moved = {}
  /\ processed = {}

outreach == <<now, contacts, db, sequential, workers, scoring, pools>>

Finished(t, rows) ==
  [last_recompute EXCEPT ![matchers[t].contact_id] =
     [path |-> matchers[t].path, matches |-> matchers[t].found,
      no_industry |-> matchers[t].no_industry,
      pairs |-> StoredPairs(rows, matchers[t].contact_id),
      fresh |-> matchers[t].fresh, chained |-> matchers[t].chained]]

Recomputing(c) == {t \in Threads : matchers[t].pc # "idle" /\ matchers[t].contact_id = c}

\* A recompute starts: it scores every role and keeps the matches.  With no
\* match at all it ends here and the stored rows stay as they are.
RecomputeStart(t, c, path) ==
  /\ matchers[t].pc = "idle"
  /\ \A u \in Threads : u < t => matchers[u].pc # "idle"
  /\ match_steps.recomputes < MaxRecomputes
  /\ match_steps' = [match_steps EXCEPT !.recomputes = @ + 1]
  /\ \E api \in ApiAnswers :
       LET sync == sync_role_deals(deal_sync, api)
           matches == find_matches_for_contact(crm, sync, contacts, c)
           none == NoIndustryMatch(crm, sync, contacts, c)
           chained == /\ last_recompute[c].fresh
                      /\ last_recompute[c].path = path
                      /\ Recomputing(c) = {}
           others == [u \in Threads |->
                        IF u \in Recomputing(c)
                          THEN [matchers[u] EXCEPT !.alone = FALSE, !.chained = FALSE]
                                                ELSE matchers[u]]
       IN  /\ deal_sync' = sync
           /\ IF matches = <<>>
                THEN /\ matchers' = others
                     /\ last_recompute' = [last_recompute EXCEPT ![c] =
                                             [path |-> path, matches |-> <<>>,
                                              no_industry |-> none,
                                              pairs |-> StoredPairs(match_rows, c),
                                              fresh |-> TRUE, chained |-> chained]]
                ELSE /\ matchers' = [others EXCEPT ![t] =
                                       [pc |-> IF path = "match_jobs_for_contact" THEN "replace" ELSE "store",
                                        contact_id |-> c, path |-> path, matches |-> matches,
                                        existing |-> 0, found |-> matches, no_industry |-> none,
                                        snapshot |-> StoredPairs(match_rows, c),
                                        fresh |-> TRUE, alone |-> Recomputing(c) = {},
                                        chained |-> chained]]
                     /\ last_recompute' = last_recompute
  /\ UNCHANGED <<match_rows, job_matches, crm, outreach>>

\* The primary keys of the instances the threads hold
HeldIds == {matchers[t].existing : t \in Threads} \ {0}

\* match_jobs_for_contact: the delete and the creates, one transaction.
RecomputeReplace(t) ==
  /\ matchers[t].pc = "replace"
  /\ match_rows' = ReplaceMatches(match_rows, HeldIds, matchers[t].contact_id, matchers[t].matches)
  /\ job_matches' = ScoreView(match_rows')
  /\ matchers' = [matchers EXCEPT ![t] = IdleMatcher]
  /\ last_recompute' = Finished(t, match_rows')
  /\ UNCHANGED <<crm, deal_sync, match_steps, outreach>>

\* store_matches: the transaction of the next match opens and reads the row
\* of the pair.
RecomputeStoreRead(t) ==
  /\ matchers[t].pc = "store"
  /\ matchers' = [matchers EXCEPT ![t].pc = "save",
                                  ![t].existing = find_existing(match_rows, Head(matchers[t].matches))]
  /\ UNCHANGED <<match_rows, job_matches, last_recompute, crm, deal_sync, match_steps, outreach>>

\* store_matches: the row is saved or created and the transaction commits.
RecomputeStoreWrite(t) ==
  /\ matchers[t].pc = "save"
  /\ match_rows' = store_match(match_rows, HeldIds, matchers[t].existing, Head(matchers[t].matches))
  /\ job_matches' = ScoreView(match_rows')
  /\ IF Tail(matchers[t].matches) = <<>>
       THEN /\ matchers' = [matchers EXCEPT ![t] = IdleMatcher]
            /\ last_recompute' = Finished(t, match_rows')
       ELSE /\ matchers' = [matchers EXCEPT ![t].matches = Tail(@), ![t].existing = 0,
                                            ![t].pc = "store"]
            /\ last_recompute' = last_recompute
  /\ UNCHANGED <<crm, deal_sync, match_steps, outreach>>

\* A data change: what was computed before it is no longer fresh.
Stale == [c \in Cands |-> [last_recompute[c] EXCEPT !.fresh = FALSE]]

StaleMatchers ==
  [t \in Threads |-> IF matchers[t].pc = "idle" THEN matchers[t]
                      ELSE [matchers[t] EXCEPT !.fresh = FALSE, !.chained = FALSE]]

\* The tag lists a role is given.
TagLists == {{}, Tags}

\* The webhook syncs new tags of a role.
SyncRoleTags(r, tags) ==
  /\ tags # crm.role_tags[r]
  /\ match_steps.changes < MaxChanges
  /\ match_steps' = [match_steps EXCEPT !.changes = @ + 1]
  /\ crm' = [crm EXCEPT !.role_tags[r] = tags]
  /\ last_recompute' = Stale
  /\ matchers' = StaleMatchers
  /\ UNCHANGED <<match_rows, job_matches, deal_sync, outreach>>

\* Empty, yesterday, in four days.
FollowUpDays == {NoDate, 4, 9}

\* The webhook syncs a new follow-up date of a company.
SyncAccount(co, day) ==
  /\ day # crm.follow_up_day[co]
  /\ match_steps.changes < MaxChanges
  /\ match_steps' = [match_steps EXCEPT !.changes = @ + 1]
  /\ crm' = [crm EXCEPT !.follow_up_day[co] = day]
  /\ last_recompute' = Stale
  /\ matchers' = StaleMatchers
  /\ UNCHANGED <<match_rows, job_matches, deal_sync, outreach>>

NextMatch ==
  \/ \E t \in Threads, c \in Cands, path \in Paths : RecomputeStart(t, c, path)
  \/ \E t \in Threads : RecomputeReplace(t)
  \/ \E t \in Threads : RecomputeStoreRead(t)
  \/ \E t \in Threads : RecomputeStoreWrite(t)
  \/ \E r \in Roles, tags \in TagLists : SyncRoleTags(r, tags)
  \/ \E co \in Companies, day \in FollowUpDays : SyncAccount(co, day)

SpecMatch == InitMatch /\ [][NextMatch]_vars

\* ------------------------------------------------ the score of one match
\* The argument tuples of calculate_match_score: the three sub-match flags,
\* the lengths of the three matched lists, the start-date priority and the
\* count of rejected / closed deals.
ScoreArgs ==
  [industry_1_match : BOOLEAN, industry_2_match : BOOLEAN, skill_match : BOOLEAN,
   matched_industry_1 : 0..MaxMatched, matched_industry_2 : 0..MaxMatched,
   matched_skills : 0..MaxSkills, start_date_priority : BOOLEAN,
   rejected_deals_count : 0..MaxRejected]

InitScore ==
  /\ scoring \in [args : ScoreArgs, score : {-1}]
  /\ pools = NoPools
  /\ workers = NoWorkers
  /\ match_rows = StoredRows
  /\ crm = CrmTable
  /\ deal_sync = [r \in Roles |-> NoSync]
  /\ matchers = NoMatchers
  /\ last_recompute = [c \in Cands |-> NoRecompute]
  /\ match_steps = [recomputes |-> 0, changes |-> 0]
  /\ now = 0
  /\ contacts = Cands
  /\ job_matches = MatchTable
  /\ outreach_logs = <<>>
  /\ follow_up_tasks = <<>>
  /\ outreach_history = {}
  /\ email_limiter = [co \in Companies |-> NoLimiter]
  /\ pc = "idle"
  /\ pass_queue = <<>>
  /\ sweep_queue = <<>>
  /\ move_queue = <<>>
  /\ last_dispatch = NoResult
  /\ last_task = NoResult
  /\ moved = {}
  /\ processed = {}

\* The call returns.
CalculateMatchScore ==
  /\ scoring.score = -1
  /\ scoring' = [scoring EXCEPT !.score =
                   calculate_match_score(scoring.args.industry_1_match,
                                         scoring.args.industry_2_match,
                                         scoring.args.skill_match,
                                         scoring.args.matched_industry_1,
                                         scoring.args.matched_industry_2,
                                         scoring.args.matched_skills,
                                         scoring.args.start_date_priority,
                                         scoring.args.rejected_deals_count)]
  /\ UNCHANGED <<now, contacts, job_matches, db, sequential, workers, match_rows, crm,
                 deal_sync, matchers, last_recompute, match_steps, pools>>

NextScore == CalculateMatchScore

SpecScore == InitScore /\ [][NextScore]_vars

\* ------------------------------------------- the do-not-contact rule alone
\* The company of each role: both roles under one account, or one under each.
RoleCompanies == {RoleCompany, [r \in InternRoles |-> IF r = 1 THEN "coA" ELSE "coB"]}

\* The CRM data the scoring runs start from.
DncTables ==
  {[CrmTable EXCEPT !.intern_company_id = company, !.is_dnc = dnc, !.role_tags = tags] :
     company \in RoleCompanies, dnc \in [Accounts -> BOOLEAN], tags \in [Roles -> TagLists]}

InitDnc ==
  /\ crm \in DncTables
  /\ scoring = NoScoring
  /\ pools = NoPools
  /\ workers = NoWorkers
  /\ match_rows = StoredRows
  /\ deal_sync = [r \in Roles |-> NoSync]
  /\ matchers = NoMatchers
  /\ last_recompute = [c \in Cands |-> NoRecompute]
  /\ match_steps = [recomputes |-> 0, changes |-> 0]
  /\ now = 0
  /\ contacts = Cands
  /\ job_matches = MatchTable
  /\ outreach_logs = <<>>
  /\ follow_up_tasks = <<>>
  /\ outreach_history = {}
  /\ email_limiter = [co \in Companies |-> NoLimiter]
  /\ pc = "idle"
  /\ pass_queue = <<>>
  /\ sweep_queue = <<>>
  /\ move_queue = <<>>
  /\ last_dispatch = NoResult
  /\ last_task = NoResult
  /\ moved = {}
  /\ processed = {}

\* One scoring run of a candidate: find_matches_for_contact returns.
FindMatchesForContact(c) ==
  /\ \E api \in ApiAnswers :
       LET sync == sync_role_deals(deal_sync, api)
       IN  /\ deal_sync' = sync
           /\ last_recompute' =
                [last_recompute EXCEPT ![c] =
                   [path |-> "find_matches_for_contact",
                    matches |-> find_matches_for_contact(crm, sync, contacts, c),
                    no_industry |-> NoIndustryMatch(crm, sync, contacts, c),
                    pairs |-> StoredPairs(match_rows, c),
                    fresh |-> TRUE, chained |-> FALSE]]
  /\ UNCHANGED <<match_rows, job_matches, crm, matchers, match_steps, outreach>>

\* update_local_account: the webhook syncs the do-not-contact flag of a company.
SyncDnc(co, flag) ==
  /\ flag # crm.is_dnc[co]
  /\ crm' = [crm EXCEPT !.is_dnc[co] = flag]
  /\ last_recompute' = Stale
  /\ UNCHANGED <<match_rows, job_matches, deal_sync, matchers, match_steps, outreach>>

NextDnc ==
  \/ \E c \in Cands : FindMatchesForContact(c)
  \/ \E co \in Accounts, flag \in BOOLEAN : SyncDnc(co, flag)

SpecDnc == InitDnc /\ [][NextDnc]_vars

\* --------------------------------------- the company load rules alone
\* The CRM data the scoring runs start from: the employee count of the
\* company of the roles, and whether its Account row exists.
GateTables ==
  {[CrmTable EXCEPT !.accounts = accounts, !.no_employees["coA"] = n] :
     accounts \in {Accounts, Accounts \ {"coA"}}, n \in EmployeeCounts}

InitGates ==
  /\ crm \in GateTables
  /\ scoring = NoScoring
  /\ pools = NoPools
  /\ workers = NoWorkers
  /\ match_rows = StoredRows
  /\ deal_sync = [r \in Roles |-> NoSync]
  /\ matchers = NoMatchers
  /\ last_recompute = [c \in Cands |-> NoRecompute]
  /\ match_steps = [recomputes |-> 0, changes |-> 0]
  /\ now = 0
  /\ contacts = Cands
  /\ job_matches = MatchTable
  /\ outreach_logs = <<>>
  /\ follow_up_tasks = <<>>
  /\ outreach_history = {}
  /\ email_limiter = [co \in Companies |-> NoLimiter]
  /\ pc = "idle"
  /\ pass_queue = <<>>
  /\ sweep_queue = <<>>
  /\ move_queue = <<>>
  /\ last_dispatch = NoResult
  /\ last_task = NoResult
  /\ moved = {}
  /\ processed = {}

\* The kinds of stage a synced deal may be in.
DealStages == {"Role Confirmed", "Pending Interview", "pending interview (2nd round)"}

\* update_local_deal: a deal of the company is created in the given stage.
UpdateLocalDeal(co, stage) ==
  /\ crm' =
       IF stage = "Role Confirmed"
         THEN [crm EXCEPT !.confirmed_deals[co] = @ + 1]
       ELSE IF stage = "Pending Interview"
         THEN [crm EXCEPT !.active_deals[co] = @ + 1]
       ELSE [crm EXCEPT !.loose_active_deals[co] = @ + 1]
  /\ crm'.confirmed_deals[co] <= MaxConfirmed
  /\ crm'.active_deals[co] <= MaxActive
  /\ crm'.loose_active_deals[co] <= MaxActive
  /\ last_recompute' = Stale
  /\ UNCHANGED <<match_rows, job_matches, deal_sync, matchers, match_steps, outreach>>

NextGates ==
  \/ \E c \in Cands : FindMatchesForContact(c)
  \/ \E co \in Companies, stage \in DealStages : UpdateLocalDeal(co, stage)

SpecGates == InitGates /\ [][NextGates]_vars

\* ------------------------------- the campaign while account data changes
\* The webhook syncs the do-not-contact flag of a company between two
\* invocations of the campaign.
SyncDncBetweenRuns ==
  /\ pc = "idle"
  /\ \E co \in Companies, flag \in BOOLEAN : SyncDnc(co, flag)

NextCampaignDnc ==
  \/ Next
  \/ SyncDncBetweenRuns

SpecCampaignDnc == Init /\ [][NextCampaignDnc]_vars

\* --------------------------------------- the campaign with five roles
\* JobMatch tables in which role 1 alone reaches the pool threshold and the
\* candidates have further active matches below it: four for the urgent
\* candidate, or one for the urgent and four for the other candidate.
MoveTables ==
  {[c \in Cands |->
      IF c = 1 THEN [r \in InternRoles |-> IF r = 1 THEN 240 ELSE 0]
               ELSE [r \in InternRoles |->
                       CASE r = 1 -> 210 [] r = 2 -> 45 [] r = 3 -> 30
                         [] r = 4 -> 36 [] OTHER -> 54]],
   [c \in Cands |->
      IF c = 1 THEN [r \in InternRoles |->
                       CASE r = 1 -> 240 [] r = 2 -> 33 [] r = 3 -> 39
                         [] r = 4 -> 36 [] OTHER -> 30]
               ELSE [r \in InternRoles |-> IF r = 1 THEN 210 ELSE IF r = 2 THEN 45 ELSE 0]]}

InitMove ==
  /\ job_matches \in MoveTables
  /\ workers = NoWorkers
  /\ InitMatching
  /\ now = 0
  /\ contacts = Cands
  /\ outreach_logs = <<>>
  /\ follow_up_tasks = <<>>
  /\ outreach_history = {}
  /\ email_limiter = [co \in Companies |-> NoLimiter]
  /\ pc = "idle"
  /\ pass_queue = <<>>
  /\ sweep_queue = <<>>
  /\ move_queue = <<>>
  /\ last_dispatch = NoResult
  /\ last_task = NoResult
  /\ moved = {}
  /\ processed = {}

SpecMove == InitMove /\ [][Next]_vars

\* ------------------------------------------------- the pool building alone
\* JobMatch tables of up to four candidates (0 = no row).  In the first, four
\* candidates who are not urgent match role 1, two of them with the same
\* score; in the second, four urgent candidates match role 1; in the third,
\* two candidates who are not urgent match each of five roles.
PoolTables ==
  { [c \in {1, 3, 5, 7} |->
       [r \in 1..2 |->
          IF c = 1 THEN (IF r = 1 THEN 240 ELSE 90)
          ELSE IF c = 3 THEN (IF r = 1 THEN 210 ELSE 45)
          ELSE IF c = 5 THEN (IF r = 1 THEN 210 ELSE 150)
          ELSE (IF r = 1 THEN 90 ELSE 0)]],
    [c \in {2, 4, 6, 8} |->
       [r \in 1..2 |->
          IF c = 2 THEN (IF r = 1 THEN 240 ELSE 180)
          ELSE IF c = 4 THEN (IF r = 1 THEN 210 ELSE 150)
          ELSE IF c = 6 THEN (IF r = 1 THEN 180 ELSE 240)
          ELSE (IF r = 1 THEN 90 ELSE 60)]],
    [c \in {1, 2, 3} |->
       [r \in InternRoles |->
          IF c = 1 THEN 240
          ELSE IF c = 2 THEN (IF r = 3 THEN 150 ELSE 0)
          ELSE (IF r = 5 THEN 90 ELSE 180)]] }

InitPools ==
  /\ job_matches \in PoolTables
  /\ contacts \in {MatchedCands} \cup {MatchedCands \ {c} : c \in MatchedCands}
  /\ workers = NoWorkers
  /\ InitMatching
  /\ now = 0
  /\ outreach_logs = <<>>
  /\ follow_up_tasks = <<>>
  /\ outreach_history = {}
  /\ email_limiter = [co \in Companies |-> NoLimiter]
  /\ pc = "idle"
  /\ pass_queue = <<>>
  /\ sweep_queue = <<>>
  /\ move_queue = <<>>
  /\ last_dispatch = NoResult
  /\ last_task = NoResult
  /\ moved = {}
  /\ processed = {}

\* run_outreach_automation(dry_run=True, max_roles): the two groupings are
\* built and returned, nothing is sent; max_roles is kept as the argument of
\* the call and not read.  One order of the equal-score rows stands for the two
\* queries: a candidate is read by one of them only.
DryRun ==
  /\ pc = "idle"
  /\ \E tie \in TieOrders, max_roles \in MaxRolesInputs :
       pools' = [status |-> "dry_run_completed",
                 max_roles |-> max_roles,
                 role_candidates |-> get_top_candidates_by_role(tie),
                 urgent_role_candidates |-> get_urgent_candidates_by_role(tie)]
  /\ last_dispatch' = NoResult
  /\ last_task' = NoResult
  /\ UNCHANGED <<now, contacts, job_matches, db, pc, pass_queue, sweep_queue,
                 move_queue, moved, processed, workers, match_rows, crm, deal_sync,
                 matchers, last_recompute, match_steps, scoring>>

NextPools ==
  \/ DryRun
  \/ RunBatchOutreach
  \/ RunUrgentOutreachBatch
  \/ DispatchRole

SpecPools == InitPools /\ [][NextPools]_vars

\* ------------------------------------- two sweeps running at the same time
\* The cron command and the HTTP-triggered sweep, each a call of
\* process_follow_up_workflow with its own FollowUpWorkflow object.
Sweeps == {1, 2}

\* The locals of one process_pending_follow_ups call: the evaluated query, the
\* candidates and roles move_candidates_to_next_roles still has to walk, and
\* results['task_results'].
IdleSweep == [pc |-> "idle", sweep_queue |-> <<>>, cands |-> <<>>,
              move_queue |-> <<>>, task_results |-> <<>>]

InitSweeps ==
  /\ workers = [w \in Sweeps |-> IdleSweep]
  /\ InitMatching
  /\ now = 0
  /\ contacts = Cands
  /\ job_matches = MatchTable
  /\ outreach_logs = <<>>
  /\ follow_up_tasks = <<>>
  /\ outreach_history = {}
  /\ email_limiter = [co \in Companies |-> NoLimiter]
  /\ pc = "idle"
  /\ pass_queue = <<>>
  /\ sweep_queue = <<>>
  /\ move_queue = <<>>
  /\ last_dispatch = NoResult
  /\ last_task = NoResult
  /\ moved = {}
  /\ processed = {}

\* Time passes while no sweep is running.
TickSweeps ==
  /\ AllIdle
  /\ Tick

\* process_pending_follow_ups up to its loop: len(pending_tasks) evaluates the
\* query, and the loop walks the rows it returned.
SweepStart(w) ==
  /\ UNCHANGED matching
  /\ pc = "idle"
  /\ workers[w].pc = "idle"
  /\ pending_tasks # <<>>
  /\ workers' = [workers EXCEPT ![w] =
                   [IdleSweep EXCEPT !.pc = "sweep", !.sweep_queue = pending_tasks]]
  /\ UNCHANGED <<now, contacts, job_matches, db, sequential>>

\* The locals of sweep w after the task at the head of its rows returned result.
SweepAfterTask(w, result) ==
  [workers[w] EXCEPT
     !.pc = IF Tail(workers[w].sweep_queue) = <<>> THEN "idle" ELSE "sweep",
     !.sweep_queue = Tail(@),
     !.cands = <<>>,
     !.move_queue = <<>>,
     !.task_results = Append(@, [task_id |-> workers[w].sweep_queue[1].task,
                                 status |-> result.status])]

\* process_follow_up_task of sweep w for a task whose log has a response, or
\* for a follow_up or final task: send_follow_up_email
SweepTask(w) ==
  /\ UNCHANGED matching
  /\ workers[w].pc = "sweep"
  /\ LET head == workers[w].sweep_queue[1]
     IN  IF ResponseAlreadyReceived(head.outreach_log)
           THEN /\ follow_up_tasks' = CompleteTask(follow_up_tasks, head.task)
                /\ workers' = [workers EXCEPT ![w] =
                     SweepAfterTask(w, Result("task", "skipped", "response_received"))]
                /\ UNCHANGED <<outreach_logs, outreach_history, email_limiter>>
           ELSE /\ follow_up_tasks[head.task].follow_up_type \in {"follow_up", "final"}
                /\ Len(outreach_logs) < MaxLogs
                /\ \E ext \in FollowUpOutcomes :
                     /\ SetTables(send_follow_up_email(Tables, head.task,
                                                       head.outreach_log, ext))
                     /\ workers' = [workers EXCEPT ![w] =
                          SweepAfterTask(w, FollowUpResult(head.outreach_log, ext))]
  /\ UNCHANGED <<now, contacts, job_matches, sequential>>

\* process_follow_up_task of sweep w for a move_to_next task, up to the loop
\* of move_candidates_to_next_roles over the candidates of the log
SweepMove(w) ==
  /\ UNCHANGED matching
  /\ workers[w].pc = "sweep"
  /\ LET head == workers[w].sweep_queue[1]
     IN  /\ ~ResponseAlreadyReceived(head.outreach_log)
         /\ follow_up_tasks[head.task].follow_up_type = "move_to_next"
         /\ workers' = [workers EXCEPT ![w].pc = "move",
                                       ![w].cands = head.outreach_log.candidate_ids]
  /\ UNCHANGED <<now, contacts, job_matches, db, sequential>>

\* One step of move_candidates_to_next_roles of sweep w: the next
\* initiate_outreach_for_next_role call, else get_next_roles_for_candidate for
\* the next candidate, else the end of the handler.
SweepMoveStep(w) ==
  /\ UNCHANGED matching
  /\ workers[w].pc = "move"
  /\ LET head == workers[w].sweep_queue[1]
         queue == workers[w].move_queue
         cands == workers[w].cands
     IN  IF queue # <<>>
           THEN /\ Len(outreach_logs) < MaxLogs
                /\ \E ext \in DispatchOutcomes :
                     SetTables(initiate_outreach_for_next_role(
                                 Tables, queue[1][1], queue[1][2], ext))
                /\ workers' = [workers EXCEPT ![w].move_queue = Tail(queue)]
         ELSE IF cands # <<>>
           THEN /\ workers' = [workers EXCEPT
                     ![w].move_queue = NextPairs(outreach_history, <<cands[1]>>),
                     ![w].cands = Tail(cands)]
                /\ UNCHANGED db
         ELSE /\ SetTables(FinishMove(Tables, head.task, head.outreach_log))
              /\ workers' = [workers EXCEPT ![w] =
                   SweepAfterTask(w, Result("task", "success", "moved_to_next"))]
  /\ UNCHANGED <<now, contacts, job_matches, sequential>>

NextSweeps ==
  \/ TickSweeps
  \/ RunBatchOutreach
  \/ DispatchRole
  \/ IngestReply
  \/ \E w \in Sweeps : SweepStart(w)
  \/ \E w \in Sweeps : SweepTask(w)
  \/ \E w \in Sweeps : SweepMove(w)
  \/ \E w \in Sweeps : SweepMoveStep(w)

SpecSweeps == InitSweeps /\ [][NextSweeps]_vars

\* ------------------------------------------ the campaign under steady sweeps
\* One candidate, not urgent, with stored matches for both roles.
LiveTable == [c \in {1} |-> [r \in Roles |-> IF r = 1 THEN 240 ELSE 180]]

InitLive ==
  /\ job_matches = LiveTable
  /\ contacts = {1}
  /\ workers = NoWorkers
  /\ InitMatching
  /\ now = 0
  /\ outreach_logs = <<>>
  /\ follow_up_tasks = <<>>
  /\ outreach_history = {}
  /\ email_limiter = [co \in Companies |-> NoLimiter]
  /\ pc = "idle"
  /\ pass_queue = <<>>
  /\ sweep_queue = <<>>
  /\ move_queue = <<>>
  /\ last_dispatch = NoResult
  /\ last_task = NoResult
  /\ moved = {}
  /\ processed = {}

NextLive ==
  \/ TickWithin(LiveTicks)
  \/ RunBatchOutreach
  \/ DispatchRoleWithin(LiveLogs)
  \/ StartSweep
  \/ SkipRespondedTask
  \/ SendFollowUpWithin(LiveLogs)
  \/ StartMove
  \/ MoveNextWithin(LiveLogs)
  \/ MarkResponseReceived
  \/ IngestReply

\* Time passes and the cron entry starts sweep after sweep, whatever else
\* runs in between; a handler that has started runs to its end.
SweepsKeepRunning ==
  /\ SF_vars(TickWithin(LiveTicks))
  /\ SF_vars(StartSweep)
  /\ WF_vars(DispatchRoleWithin(LiveLogs))
  /\ WF_vars(SkipRespondedTask)
  /\ WF_vars(SendFollowUpWithin(LiveLogs))
  /\ WF_vars(StartMove)
  /\ WF_vars(MoveNextWithin(LiveLogs))

SpecLive == InitLive /\ [][NextLive]_vars /\ SweepsKeepRunning

\* A send_follow_up_email call that ends in task.save(): the email went out,
\* or the log has no candidate left.
FollowUpGetsThrough ==
  /\ SendFollowUpWithin(LiveLogs)
  /\ follow_up_tasks'[sweep_queue[1].task].completed

\* The same campaign when no send keeps failing for ever.
SpecLiveSends == SpecLive /\ SF_vars(FollowUpGetsThrough)

\* ------------------------------------------------------------------ claims
InitialLogs(logs) == {l \in 1..Len(logs) : logs[l].email_type = "initial"}

\* The logs created for a follow_up / final email of log l
ChildLogs(logs, l, stage) ==
  {k \in 1..Len(logs) : logs[k].parent_outreach_log = l /\ logs[k].email_type = stage}

\* The tasks of log l for a stage
StageTasks(tasks, l, stage) ==
  {t \in 1..Len(tasks) : tasks[t].outreach_log = l /\ tasks[t].follow_up_type = stage}

LogTasks(tasks, l) == {t \in 1..Len(tasks) : tasks[t].outreach_log = l}

HistoryKeys(hist) ==
  {<<h.contact_id, h.intern_role_id, h.cycle_number>> : h \in hist}

C2_ResponseShortCircuit ==
  [][\A l \in LogIds :
       (/\ outreach_logs'[l] # outreach_logs[l]
        /\ outreach_logs'[l].response_received
        /\ outreach_logs'[l].response_type \in ResponseTypes)
       => /\ Len(follow_up_tasks') = Len(follow_up_tasks)
          /\ \A t \in TaskIds :
               IF follow_up_tasks[t].outreach_log = l
                 THEN follow_up_tasks'[t].completed
                 ELSE follow_up_tasks'[t].completed = follow_up_tasks[t].completed]_vars

C2_Witness ==
  \E l, k \in InitialLogs(outreach_logs) :
    /\ l # k
    /\ outreach_logs[l].response_type \in ResponseTypes
    /\ \A t \in LogTasks(follow_up_tasks, l) :
         follow_up_tasks[t].completed /\ follow_up_tasks[t].scheduled_date > now
    /\ \E t \in LogTasks(follow_up_tasks, k) : ~follow_up_tasks[t].completed

\* C3: once a response is recorded on log l no step sends a follow_up or final
\* email for l or runs move-to-next for l; a sweep that finds a due task of l
\* completes it without sending an email or starting a new outreach.
C3_NoActionAfterResponse ==
  [][\A l \in LogIds :
       outreach_logs[l].response_received
       => /\ ChildLogs(outreach_logs', l, "follow_up") = ChildLogs(outreach_logs, l, "follow_up")
          /\ ChildLogs(outreach_logs', l, "final") = ChildLogs(outreach_logs, l, "final")
          /\ (l \in moved') = (l \in moved)
          /\ (/\ pc = "sweep"
              /\ sweep_queue' # sweep_queue
              /\ follow_up_tasks[sweep_queue[1].task].outreach_log = l)
             => /\ follow_up_tasks'[sweep_queue[1].task].completed
                /\ Len(outreach_logs') = Len(outreach_logs)]_vars

C3_Witness ==
  /\ last_task = Result("task", "skipped", "response_received")
  /\ \E l \in Responded : \E t \in LogTasks(follow_up_tasks, l) :
       t \in processed /\ follow_up_tasks[t].completed

\* C4 as stated: a final email for l only after a follow_up email for l, and
\* move-to-next for l only after the final email for l.
C4_StagesSentInOrder ==
  \A l \in LogIds :
    /\ ChildLogs(outreach_logs, l, "final") # {}
       => ChildLogs(outreach_logs, l, "follow_up") # {}
    /\ l \in moved => ChildLogs(outreach_logs, l, "final") # {}

\* C4 as amended: the stages of a log are attempted in the order of the state
\* machine - a final email is sent for l only after the follow_up task of l
\* has been processed (sent, skipped or failed), move-to-next runs for l only
\* after the final task of l has been processed - and the move_to_next task
\* of l is completed only by move-to-next or by a recorded response.
C4_StagesAttemptedInOrder ==
  \A l \in LogIds :
    /\ ChildLogs(outreach_logs, l, "final") # {}
       => StageTasks(follow_up_tasks, l, "follow_up") \subseteq processed
    /\ l \in moved
       => StageTasks(follow_up_tasks, l, "final") \subseteq processed
    /\ \A t \in StageTasks(follow_up_tasks, l, "move_to_next") :
         follow_up_tasks[t].completed
         => l \in moved \/ outreach_logs[l].response_received

C4_Witness ==
  \E l \in moved :
    /\ ChildLogs(outreach_logs, l, "final") # {}
    /\ ChildLogs(outreach_logs, l, "follow_up") = {}
    /\ StageTasks(follow_up_tasks, l, "follow_up") \subseteq processed

\* C5: after move-to-next has run for log l no follow_up or final email is
\* sent for l any more.
C5_MovedIsTerminal ==
  [][\A l \in moved :
       /\ ChildLogs(outreach_logs', l, "follow_up") = ChildLogs(outreach_logs, l, "follow_up")
       /\ ChildLogs(outreach_logs', l, "final") = ChildLogs(outreach_logs, l, "final")]_vars

\* C6: a due follow_up or final task that ends skipped or in error is still
\* marked completed, so no later sweep picks it up again.
C6_FailedTaskCompleted ==
  [][(/\ pc = "sweep"
      /\ follow_up_tasks[sweep_queue[1].task].follow_up_type \in {"follow_up", "final"}
      /\ last_task'.status \in {"skipped", "error"})
     => follow_up_tasks'[sweep_queue[1].task].completed]_vars

\* C7: ingesting a reply mapped to log l has the effect of
\* mark_response_received on l: response fields set, every task of l
\* completed, the history rows of l responded.
C7_ReplyMarksResponse ==
  [][\A l \in LogIds :
       (/\ outreach_logs'[l] # outreach_logs[l]
        /\ outreach_logs'[l].response_type = "reply")
       => /\ outreach_logs'[l].response_received
          /\ \A t \in LogTasks(follow_up_tasks', l) : follow_up_tasks'[t].completed
          /\ \A h \in outreach_history' :
               h.outreach_log = l => h.status = "responded"]_vars

\* C8: a dispatch that is skipped or fails creates no OutreachLog, no
\* CandidateOutreachHistory row and no FollowUpTask and leaves the weekly
\* counter of the company as it was.
C8_PersistOnlyOnSuccess ==
  [][(last_dispatch'.op = "outreach" /\ last_dispatch'.status # "success")
     => /\ Len(outreach_logs') = Len(outreach_logs)
        /\ HistoryKeys(outreach_history') = HistoryKeys(outreach_history)
        /\ Len(follow_up_tasks') = Len(follow_up_tasks)
        /\ email_limiter' = email_limiter]_vars

C8_Witness ==
  /\ last_dispatch = Result("outreach", "skipped", "email_limit_reached")
  /\ outreach_logs # <<>>

\* The (candidate, role) pairs that have a CandidateOutreachHistory row
HistoryPairs == {<<h.contact_id, h.intern_role_id>> : h \in outreach_history}

\* The initial logs that pitched candidate c to role r
Pitches(c, r) ==
  {l \in InitialLogs(outreach_logs) :
     /\ outreach_logs[l].intern_role_id = r
     /\ \E i \in 1..Len(outreach_logs[l].candidate_ids) :
          outreach_logs[l].candidate_ids[i] = c}

\* C9: a (candidate, role) pair with a history row is never selected again -
\* not by a pass, not by move-to-next - so at most one initial outreach is
\* ever sent per pair.
C9_PitchedOnce ==
  /\ \A c \in Cands, r \in Roles : Cardinality(Pitches(c, r)) <= 1
  /\ \A i \in 1..Len(pass_queue) : \A j \in 1..Len(pass_queue[i].candidates) :
       <<pass_queue[i].candidates[j], pass_queue[i].role_id>> \notin HistoryPairs
  /\ \A i \in 1..Len(move_queue) : move_queue[i] \notin HistoryPairs

C9_Witness ==
  /\ pc = "pass"
  /\ \E c \in contacts, r \in Roles :
       /\ <<c, r>> \in HistoryPairs
       /\ job_matches[c][r] >= MIN_POOL_SCORE
       /\ \E i \in 1..Len(pass_queue) : \E j \in 1..Len(pass_queue[i].candidates) :
            pass_queue[i].candidates[j] = c /\ pass_queue[i].role_id # r

\* C10: within one pool-building pass no candidate is allocated to two roles.
C10_NoDoubleBooking ==
  \A i, k \in 1..Len(pass_queue) : \A j \in 1..Len(pass_queue[i].candidates) :
    \A m \in 1..Len(pass_queue[k].candidates) :
      pass_queue[i].candidates[j] = pass_queue[k].candidates[m] => i = k

\* The Monday, as a day number, of the week hour h falls in
WeekOf(h) == (h \div HoursPerDay) - ((h \div HoursPerDay) % DaysPerWeek)

\* The initial outreach emails company co received in the current week
InitialEmailsThisWeek(co) ==
  {l \in InitialLogs(outreach_logs) :
     /\ outreach_logs[l].company_id = co
     /\ WeekOf(outreach_logs[l].sent_at) = WeekOf(now)}

\* The role and the candidates of the dispatch the next step carries out
DispatchedRole == IF pc = "pass" THEN pass_queue[1].role_id ELSE move_queue[1][2]

DispatchedCandidates ==
  IF pc = "pass" THEN pass_queue[1].candidates ELSE <<move_queue[1][1]>>

C12_LimiterAtomic ==
  AllIdle
  => \A co \in Companies :
       /\ Cardinality(InitialEmailsThisWeek(co)) <= WEEKLY_LIMIT
       /\ InitialEmailsThisWeek(co) # {}
          => /\ email_limiter[co].week_start_date = WeekOf(now)
             /\ email_limiter[co].emails_sent_this_week
                  = Cardinality(InitialEmailsThisWeek(co))

\* The roles with a candidate pool, whichever way the database breaks ties
PooledRoles ==
  {r \in Roles : \E tie \in TieOrders :
     \/ \E i \in 1..Len(get_top_candidates_by_role(tie)) :
          get_top_candidates_by_role(tie)[i].role_id = r
     \/ \E i \in 1..Len(get_urgent_candidates_by_role(tie)) :
          get_urgent_candidates_by_role(tie)[i].role_id = r}

\* The thread stores a row in this step, from a scoring run on the current data
StoresFresh(t) ==
  /\ matchers[t].pc \in {"save", "replace"}
  /\ matchers[t].fresh
  /\ matchers'[t] # matchers[t]
  /\ match_rows' # match_rows

\* C13: a role whose company follow_up_date is empty or on/before today is
\* excluded regardless of score: once every candidate was recomputed on the
\* current data the role is in no candidate pool built from the stored
\* matches, and no recompute stores a match for such a role.
C13_FollowUpDateExcluded ==
  /\ []((\A c \in Cands : last_recompute[c].fresh)
        => \A r \in Roles : check_company_follow_up_date(crm, Today, r) => r \notin PooledRoles)
  /\ [][\A t \in DOMAIN matchers :
          (StoresFresh(t) /\ matchers[t].pc = "save")
          => ~check_company_follow_up_date(crm, Today, Head(matchers[t].matches).intern_role_id)]_vars

\* The roles candidate c has an active stored match for
StoredRoles(c) == {x.intern_role_id : x \in ActiveRows(match_rows, c)}

\* C14: industry relevance is a hard gate on stored matches: if the latest
\* recompute of candidate C found no industry match for role R in either
\* bucket, R is not among the stored active matches of C.
C14_IndustryHardGate ==
  \A c \in Cands :
    last_recompute[c].path # "none"
    => last_recompute[c].no_industry \cap StoredRoles(c) = {}

\* The pairs a finished recompute was to leave: those of its scoring run, for
\* match_jobs_for_contact the ones at or above min_score
QualityPairs(rec) ==
  {<<rec.matches[i].intern_role_id, rec.matches[i].match_score>> :
     i \in {k \in 1..Len(rec.matches) :
              rec.path = "match_jobs_for_contact" => rec.matches[k].match_score >= MIN_SCORE}}

\* C15: recompute replaces rather than appends: when a recompute of candidate
\* C has finished, the stored active matches of C are exactly the pairs its
\* scoring run produced at or above the threshold, also when there are none.
C15_RecomputeReplaces ==
  \A c \in Cands :
    last_recompute[c].path # "none" => last_recompute[c].pairs = QualityPairs(last_recompute[c])

ActivePairRows(c, r) == {x \in ActiveRows(match_rows, c) : x.intern_role_id = r}

\* C17: there is at most one JobMatch row with status active per
\* (candidate, role) pair, after any sequence of recomputes through either
\* path, interleaved recomputes of one candidate included.
C17_OneActiveRowPerPair ==
  \A c \in Cands, r \in Roles : Cardinality(ActivePairRows(c, r)) <= 1

\* Two recomputes of one candidate interleave, one through each path: one has
\* deleted the candidate's rows, the other one has saved a row since
C17_Witness ==
  \E c \in Cands :
    /\ last_recompute[c].path = "match_jobs_for_contact"
    /\ last_recompute[c].pairs = {}
    /\ last_recompute[c].matches # <<>>
    /\ \E t \in Threads : /\ matchers[t].pc = "store"
                          /\ matchers[t].contact_id = c
                          /\ Len(matchers[t].matches) < Len(matchers[t].found)
    /\ \E r \in Roles : Cardinality(ActivePairRows(c, r)) = 1

\* The pairs the scoring run of thread t produced
FoundPairs(t) ==
  {<<matchers[t].found[i].intern_role_id, matchers[t].found[i].match_score>> :
     i \in 1..Len(matchers[t].found)}

\* What a reader of the candidate's rows sees is neither the set stored when
\* the recompute of thread t started nor the set it leaves: a new pair of the
\* run is stored next to an old pair the run is to overwrite.
Mixture(t) ==
  LET seen == StoredPairs(match_rows, matchers[t].contact_id)
  IN  /\ \E p \in FoundPairs(t) : p \in seen /\ p \notin matchers[t].snapshot
      /\ \E q \in matchers[t].snapshot :
           /\ q \in seen
           /\ \E p \in FoundPairs(t) : p[1] = q[1] /\ p[2] # q[2]

\* C18: a per-candidate recompute is atomic with respect to readers: while a
\* recompute of candidate C runs, no other one running for C beside it, the
\* stored matches of C a pool-building pass or a top-matches read gets are
\* never a mixture of old and new rows.
C18_RecomputeAtomicForReaders ==
  \A t \in DOMAIN matchers :
    (matchers[t].pc # "idle" /\ matchers[t].alone) => ~Mixture(t)

\* C19: every OutreachLog whose stage is not initial has a parent log and
\* carries the thread-id of that parent.
C19_ChildReusesParentThread ==
  \A l \in LogIds :
    outreach_logs[l].email_type # "initial"
    => /\ outreach_logs[l].parent_outreach_log \in LogIds \ {l}
       /\ outreach_logs[l].thread_id
            = outreach_logs[outreach_logs[l].parent_outreach_log].thread_id

\* A follow_up and a final log of one parent exist, each in the parent's thread
C19_Witness ==
  \E l, k \in LogIds :
    /\ outreach_logs[l].email_type = "follow_up"
    /\ outreach_logs[k].email_type = "final"
    /\ outreach_logs[l].parent_outreach_log = outreach_logs[k].parent_outreach_log
    /\ outreach_logs[l].parent_outreach_log \in LogIds
    /\ outreach_logs[k].thread_id
         = outreach_logs[outreach_logs[k].parent_outreach_log].thread_id

Stages == {"follow_up", "final", "move_to_next"}

\* The tasks of log l for a stage that are not completed
IncompleteTasks(l, stage) ==
  {t \in TaskIds : /\ follow_up_tasks[t].outreach_log = l
                   /\ follow_up_tasks[t].follow_up_type = stage
                   /\ ~follow_up_tasks[t].completed}

\* C20: each OutreachLog has at most one incomplete FollowUpTask per stage,
\* and a log created for a follow_up or final email has no task at all.
C20_OneIncompleteTaskPerStage ==
  \A l \in LogIds :
    /\ \A stage \in Stages : Cardinality(IncompleteTasks(l, stage)) <= 1
    /\ outreach_logs[l].email_type # "initial"
       => \A t \in TaskIds : follow_up_tasks[t].outreach_log # l

\* A follow_up email was sent: its log exists without tasks, the follow_up
\* task of the parent is completed and its final task is the one pending
C20_Witness ==
  \E l, k \in LogIds :
    /\ outreach_logs[k].email_type = "follow_up"
    /\ outreach_logs[k].parent_outreach_log = l
    /\ IncompleteTasks(l, "follow_up") = {}
    /\ Cardinality(IncompleteTasks(l, "final")) = 1
    /\ \A t \in TaskIds : follow_up_tasks[t].outreach_log # k

\* C21: for every combination of the sub-match flags, the matched counts, the
\* start-date priority and the rejected-deal count, calculate_match_score
\* returns 0.40 * min(1, primary) + 0.20 * min(1, secondary)
\* + 0.25 * min(1, skills / 3), each term counted when its sub-match flag is
\* set, + 0.15 with start-date priority, - 0.15 with at least 2 rejected
\* deals, clamped to [0, 1]; primary only gives 0.40, primary only with 2
\* rejected deals gives 0.25.  Both sides are multiplied by 300.
FormulaTimes300(a) ==
  LET primary == IF a.industry_1_match THEN a.matched_industry_1 ELSE 0
      secondary == IF a.industry_2_match THEN a.matched_industry_2 ELSE 0
      skills == IF a.skill_match THEN a.matched_skills ELSE 0
      thirds == IF skills >= 3 THEN 3 ELSE skills
      raw == 120 * (IF primary >= 1 THEN 1 ELSE 0)
             + 60 * (IF secondary >= 1 THEN 1 ELSE 0)
             + 25 * thirds
             + (IF a.start_date_priority THEN 45 ELSE 0)
             - (IF a.rejected_deals_count >= 2 THEN 45 ELSE 0)
  IN  IF raw < 0 THEN 0 ELSE IF raw > 300 THEN 300 ELSE raw

PrimaryOnly(a) ==
  /\ a.industry_1_match /\ a.matched_industry_1 >= 1
  /\ ~a.industry_2_match /\ ~a.skill_match /\ ~a.start_date_priority

OtherCompanies(data, ms, co) ==
  SelectSeq(ms, LAMBDA m : data.intern_company_id[m.intern_role_id] # co)

Unflagged(data) == [data EXCEPT !.is_dnc = [co \in Accounts |-> FALSE]]

NotFlagged(data, ms) ==
  SelectSeq(ms, LAMBDA m : ~data.is_dnc[data.intern_company_id[m.intern_role_id]])

AllSynced == \A r \in Roles : deal_sync[r] # NoSync

C22_DncMonotonicLocal ==
  /\ [][\A co \in Accounts : ~crm.is_dnc[co] /\ crm'.is_dnc[co] =>
          \A c \in Cands, api \in ApiAnswers :
            LET sync == sync_role_deals(deal_sync, api)
                before == find_matches_for_contact(crm, sync, contacts, c)
                after == find_matches_for_contact(crm', sync, contacts, c)
            IN  /\ OtherCompanies(crm, after, co) = after
                /\ OtherCompanies(crm, before, co) = after]_vars
  /\ [](\A c \in Cands : last_recompute[c].fresh =>
          /\ AllSynced
          /\ last_recompute[c].matches =
               NotFlagged(crm, find_matches_for_contact(Unflagged(crm), deal_sync, contacts, c)))

\* Candidate 2 was scored, then company coA was flagged, then candidate 1 was
\* scored: the earlier run returned the role of coA, the later one returned
\* of the two roles, eligible without the flag, the one of company coB only.
C22_Witness ==
  /\ crm.is_dnc["coA"] /\ ~crm.is_dnc["coB"]
  /\ last_recompute[2].path # "none" /\ ~last_recompute[2].fresh
  /\ \E i \in 1..Len(last_recompute[2].matches) :
       last_recompute[2].matches[i].intern_role_id = 1
  /\ crm.intern_company_id[1] = "coA" /\ crm.intern_company_id[2] = "coB"
  /\ last_recompute[1].fresh
  /\ Len(last_recompute[1].matches) = 1
  /\ last_recompute[1].matches[1].intern_role_id = 2
  /\ AllSynced
  /\ Len(find_matches_for_contact(Unflagged(crm), deal_sync, contacts, 1)) = 2

\* C23: no initial outreach email is sent for a role whose company is
\* do-not-contact at the moment of the send, be it dispatched by a
\* pool-building pass or by a move-to-next selection, even when the match was
\* stored while the company was still eligible.
NewLogs == {l \in 1..Len(outreach_logs') : l > Len(outreach_logs)}

C23_NoPitchToDncCompany ==
  [][\A l \in NewLogs :
       outreach_logs'[l].email_type = "initial"
         => ~crm.is_dnc[crm.intern_company_id[outreach_logs'[l].intern_role_id]]]_vars

\* C24: when a move_to_next task runs for a log, each candidate of the log
\* gets at most 3 next roles, each an active match of the candidate for a
\* role absent from the candidate's outreach history, the best ones in
\* descending score order; for each (candidate, next role) pair one initial
\* outreach is attempted, and each that succeeds gets its own new
\* OutreachLog with its own three tasks.
MoveTaskRuns ==
  /\ pc = "sweep"
  /\ follow_up_tasks[sweep_queue[1].task].follow_up_type = "move_to_next"
  /\ ~sweep_queue[1].outreach_log.response_received
  /\ processed' # processed

\* The next roles selected for candidate c, in the order of the selection.
SelectedRoles(c) ==
  LET mine == SelectSeq(move_queue', LAMBDA pair : pair[1] = c)
  IN  [i \in 1..Len(mine) |-> mine[i][2]]

Untried(c) ==
  {r \in MatchedRoles : /\ job_matches[c][r] > 0
                        /\ ~\E h \in outreach_history :
                              h.contact_id = c /\ h.intern_role_id = r}

SelectionOf(c) ==
  LET sel == SelectedRoles(c)
      chosen == {sel[i] : i \in 1..Len(sel)}
  IN  /\ Len(sel) <= 3
      /\ chosen \subseteq Untried(c)
      /\ \A i, j \in 1..Len(sel) :
           i < j => sel[i] # sel[j] /\ job_matches[c][sel[i]] >= job_matches[c][sel[j]]
      /\ \A r \in Untried(c) \ chosen :
           Len(sel) = 3 /\ \A i \in 1..3 : job_matches[c][r] <= job_matches[c][sel[i]]

OwnLogAndTasks(c, r) ==
  LET l == Len(outreach_logs')
      n == Len(follow_up_tasks)
  IN  /\ l = Len(outreach_logs) + 1
      /\ outreach_logs'[l].email_type = "initial"
      /\ outreach_logs'[l].intern_role_id = r
      /\ outreach_logs'[l].candidate_ids = <<c>>
      /\ outreach_logs'[l].parent_outreach_log = NoLog
      /\ Len(follow_up_tasks') = n + 3
      /\ \A k \in 1..3 : /\ follow_up_tasks'[n + k].outreach_log = l
                         /\ ~follow_up_tasks'[n + k].completed
      /\ {follow_up_tasks'[n + k].follow_up_type : k \in 1..3}
           = {"follow_up", "final", "move_to_next"}

C24_MoveToNextRoles ==
  [][/\ MoveTaskRuns =>
          LET cands == sweep_queue[1].outreach_log.candidate_ids
              ids == {cands[i] : i \in 1..Len(cands)}
          IN  /\ \A c \in ids : SelectionOf(c)
              /\ \A i \in 1..Len(move_queue') : move_queue'[i][1] \in ids
     /\ pc = "move" /\ move_queue' # move_queue =>
          /\ move_queue' \in {Tail(move_queue), <<>>}
          /\ last_dispatch'.op = "outreach"
          /\ IF last_dispatch'.status = "success"
               THEN OwnLogAndTasks(move_queue[1][1], move_queue[1][2])
               ELSE /\ Len(outreach_logs') = Len(outreach_logs)
                    /\ Len(follow_up_tasks') = Len(follow_up_tasks)]_vars

\* The move of the log of candidate 2, who has four untried roles: the three
\* best were selected, the outreach for the first two succeeded and each
\* has a log and three tasks of its own, the third is still to be attempted.
C24_Witness ==
  /\ pc = "move"
  /\ move_queue = << <<2, 4>> >>
  /\ Len(outreach_logs) = 3
  /\ Len(follow_up_tasks) = 9
  /\ outreach_logs[2].intern_role_id = 5 /\ outreach_logs[2].candidate_ids = <<2>>
  /\ outreach_logs[3].intern_role_id = 2 /\ outreach_logs[3].candidate_ids = <<2>>
  /\ \A t \in 7..9 : follow_up_tasks[t].outreach_log = 3

\* C25: after the move_to_next task of a log has run, the task is completed,
\* the log has response_type moved_to_next and every history row of the log's
\* candidates for the original role has status moved_to_next, whether or not
\* any new outreach could be started.
MovedNow == moved' \ moved

C25_MoveMarksLogAndHistory ==
  [][\A l \in MovedNow :
       LET log == outreach_logs'[l]
           ids == {log.candidate_ids[i] : i \in 1..Len(log.candidate_ids)}
       IN  /\ \A t \in 1..Len(follow_up_tasks') :
                /\ follow_up_tasks'[t].outreach_log = l
                /\ follow_up_tasks'[t].follow_up_type = "move_to_next"
                => follow_up_tasks'[t].completed
           /\ log.response_type = "moved_to_next"
           /\ \A h \in outreach_history' :
                h.contact_id \in ids /\ h.intern_role_id = log.intern_role_id
                  => h.status = "moved_to_next"]_vars

\* The move of log 1 has run and no new outreach was started: log 1 is still
\* the only log, and it and its history row are marked.
C25_Witness ==
  /\ moved = {1}
  /\ Len(outreach_logs) = 1
  /\ outreach_logs[1].response_type = "moved_to_next"
  /\ follow_up_tasks[3].completed
  /\ \E h \in outreach_history : h.outreach_log = 1 /\ h.status = "moved_to_next"

\* C26: each successful follow_up or final send for a log creates one new
\* OutreachLog whose parent is that log and raises the log's follow_up_count
\* by exactly 1; in every reachable state the follow_up_count of a log that
\* was sent as an initial email equals the number of logs whose parent it is
\* and never exceeds 2.
FollowUpsOf(logs, l) == {k \in 1..Len(logs) : logs[k].parent_outreach_log = l}

FollowUpSent ==
  /\ pc = "sweep"
  /\ last_task' = Result("task", "success", "")

C26_FollowUpCountExact ==
  /\ [][FollowUpSent =>
          LET l == follow_up_tasks[sweep_queue[1].task].outreach_log
          IN  /\ Len(outreach_logs') = Len(outreach_logs) + 1
              /\ outreach_logs'[Len(outreach_logs')].parent_outreach_log = l
              /\ outreach_logs'[l].follow_up_count = outreach_logs[l].follow_up_count + 1]_vars
  /\ [](\A l \in LogIds :
          outreach_logs[l].email_type = "initial" =>
            /\ outreach_logs[l].follow_up_count
                 = Cardinality(FollowUpsOf(outreach_logs, l))
            /\ outreach_logs[l].follow_up_count <= 2)

\* C27: across non-overlapping sweeps each FollowUpTask causes at most one
\* email to be sent or one move-to-next to run; a completed task is never
\* acted on again; and a sweep sends nothing and moves nothing for a task that
\* an earlier sweep already handled, so that repeating a sweep with no newly
\* due task has no effect.
HandledTask == sweep_queue[1].task

TaskTakesEffect ==
  /\ pc = "sweep"
  /\ processed' = processed \cup {HandledTask}
  /\ \/ last_task' = Result("task", "success", "")
     \/ follow_up_tasks[HandledTask].follow_up_type = "move_to_next"
        /\ ~sweep_queue[1].outreach_log.response_received

C27_CompletedNeverHandled ==
  [][pc = "sweep" /\ processed' = processed \cup {HandledTask} /\ sweep_queue' # sweep_queue
       => ~follow_up_tasks[HandledTask].completed]_vars

C27_OneEffectPerTask ==
  /\ \A l \in LogIds, stage \in {"follow_up", "final"} :
       Cardinality(ChildLogs(outreach_logs, l, stage)) <= 1

C27_SweepIdempotent ==
  /\ C27_CompletedNeverHandled
  /\ []C27_OneEffectPerTask
  /\ [][TaskTakesEffect => HandledTask \notin processed]_vars

\* C28: a sweep acts only on the tasks that are incomplete and scheduled at or
\* before its start, in ascending scheduled time; it leaves every task
\* scheduled in the future untouched; and an error while processing one task
\* does not stop the remaining due tasks of the sweep from being processed.
DueAtStart ==
  {t \in TaskIds : ~follow_up_tasks[t].completed /\ follow_up_tasks[t].scheduled_date <= now}

Ascending(queue) ==
  \A i, j \in 1..Len(queue) :
    i < j => /\ queue[i].task # queue[j].task
             /\ follow_up_tasks[queue[i].task].scheduled_date
                  <= follow_up_tasks[queue[j].task].scheduled_date

C28_SweepFrame ==
  /\ [][pc = "idle" /\ pc' = "sweep" =>
          /\ {sweep_queue'[i].task : i \in 1..Len(sweep_queue')} = DueAtStart
          /\ Ascending(sweep_queue')]_vars
  /\ [][pc = "sweep" /\ contacts' = contacts =>
          /\ HandledTask \in DueAtStart
          /\ processed' = processed \cup {HandledTask}
          /\ last_task'.status = "error" =>
               /\ sweep_queue' = Tail(sweep_queue)
               /\ pc' = IF Tail(sweep_queue) = <<>> THEN "idle" ELSE "sweep"]_vars
  /\ [][(pc = "sweep" \/ pc = "move") =>
          (\A t \in TaskIds :
             follow_up_tasks[t].scheduled_date > now =>
               (follow_up_tasks'[t] = follow_up_tasks[t]))]_vars
  /\ [](pc = "sweep" => Ascending(sweep_queue))

\* A sweep found two tasks due, the send for the earlier one ended in an
\* error, the later one is still queued, and a task of the log lies in the
\* future.
C28_Witness ==
  /\ pc = "sweep"
  /\ last_task.status = "error"
  /\ Len(sweep_queue) = 1
  /\ Cardinality(DueAtStart) = 2
  /\ \E t \in TaskIds : follow_up_tasks[t].scheduled_date > now
                        /\ ~follow_up_tasks[t].completed

\* C29: every CandidateOutreachHistory row written at send time gets
\* cycle_number = 1 + the number of rows that already exist for the same
\* (candidate, role), and no two rows ever share (candidate, role,
\* cycle_number).
RowsOfPair(hist, c, r) == {h \in hist : h.contact_id = c /\ h.intern_role_id = r}

WrittenRows == {h \in outreach_history' : h.outreach_log > Len(outreach_logs)}

C29_CycleNumbers ==
  /\ [][\A h \in WrittenRows :
          h.cycle_number
            = 1 + Cardinality(RowsOfPair(outreach_history, h.contact_id, h.intern_role_id))]_vars
  /\ [](\A h1, h2 \in outreach_history :
          /\ h1.contact_id = h2.contact_id
          /\ h1.intern_role_id = h2.intern_role_id
          /\ h1.cycle_number = h2.cycle_number
          => h1 = h2)

\* Candidate 2 has a row for each of the two roles, both of cycle 1, written
\* by two sends.
C29_Witness ==
  /\ Len(outreach_logs) >= 2
  /\ \E h1, h2 \in outreach_history :
       /\ h1.contact_id = 2 /\ h2.contact_id = 2
       /\ h1.intern_role_id = 1 /\ h2.intern_role_id = 2
       /\ h1.cycle_number = 1 /\ h2.cycle_number = 1
       /\ h1.outreach_log # h2.outreach_log

\* C30: in the grouping returned by a pool-building pass every role has
\* between 1 and 3 candidates, each backed by an active match with score at
\* least 0.2, listed in descending score order and chosen ahead of every
\* lower-scoring selectable match of that role; a role with no selectable
\* candidate is absent from the result.
PoolOf(grouping, r) ==
  IF \E i \in 1..Len(grouping) : grouping[i].role_id = r
    THEN grouping[CHOOSE i \in 1..Len(grouping) : grouping[i].role_id = r].candidates
    ELSE <<>>

InPool(grouping, c, r) ==
  \E k \in 1..Len(PoolOf(grouping, r)) : PoolOf(grouping, r)[k] = c

\* The matches of role r a pass may choose from: stored with a score of 0.2 or
\* more, of a candidate the pass is for, not pitched to the role, and not
\* stopped by the pass's per-candidate rule when the walk reaches the role.
SelectableFor(pass, grouping, r) ==
  {c \in MatchedCands :
     /\ job_matches[c][r] >= MIN_POOL_SCORE
     /\ IF pass = "urgent" THEN c \in contacts /\ check_urgency(c)
                           ELSE PlacementContact(c) /\ ~check_urgency(c)
     /\ ~AlreadyPitched(c, r)
     /\ LET earlier == {q \in MatchedRoles : q < r /\ InPool(grouping, c, q)}
        IN  IF pass = "urgent" THEN earlier = {}
                               ELSE Cardinality(earlier) <= LIMIT_PER_CANDIDATE}

GroupingRight(pass, grouping) ==
  /\ \A i, j \in 1..Len(grouping) : i < j => grouping[i].role_id < grouping[j].role_id
  /\ \A i \in 1..Len(grouping) :
       LET r == grouping[i].role_id
           pool == grouping[i].candidates
           chosen == {pool[k] : k \in 1..Len(pool)}
       IN  /\ r \in MatchedRoles
           /\ Len(pool) \in 1..3
           /\ Cardinality(chosen) = Len(pool)
           /\ chosen \subseteq SelectableFor(pass, grouping, r)
           /\ \A k \in 1..Len(pool) : job_matches[pool[k]][r] >= 60
           /\ \A k \in 1..(Len(pool) - 1) :
                job_matches[pool[k]][r] >= job_matches[pool[k + 1]][r]
           /\ \A c \in SelectableFor(pass, grouping, r) \ chosen :
                /\ Len(pool) = 3
                /\ \A k \in 1..Len(pool) : job_matches[pool[k]][r] >= job_matches[c][r]
  /\ \A r \in MatchedRoles :
       (\A i \in 1..Len(grouping) : grouping[i].role_id # r)
         => SelectableFor(pass, grouping, r) = {}

C30_PoolGrouping ==
  [][pc = "idle" /\ pc' = "idle" =>
       /\ pools'.status = "dry_run_completed"
       /\ GroupingRight("top", pools'.role_candidates)
       /\ GroupingRight("urgent", pools'.urgent_role_candidates)]_vars

\* A dry run after a send: a role has three candidates in the normal grouping
\* and a fourth selectable match of a lower score left out, and another role
\* with stored matches, pitched to by the send, is absent from it.
C30_Witness ==
  /\ pools.status = "dry_run_completed"
  /\ pc = "idle"
  /\ Len(outreach_logs) >= 1
  /\ GroupingRight("top", pools.role_candidates)
  /\ GroupingRight("urgent", pools.urgent_role_candidates)
  /\ \E i \in 1..Len(pools.role_candidates) :
       LET r == pools.role_candidates[i].role_id
           pool == pools.role_candidates[i].candidates
       IN  /\ Len(pool) = 3
           /\ \E c \in SelectableFor("top", pools.role_candidates, r) :
                /\ ~InPool(pools.role_candidates, c, r)
                /\ job_matches[c][r] < job_matches[pool[3]][r]
  /\ Len(pools.role_candidates) < Cardinality(MatchedRoles)

\* C31: the template set of every email matches the urgency recorded on its
\* outreach log: an initial email whose log has is_urgent true is composed
\* from the urgent templates and one with is_urgent false from the normal
\* templates, and follow_up and final emails use the set matching the original
\* log's urgency.
C31_TemplatesMatchUrgency ==
  \A l \in LogIds :
    /\ outreach_logs[l].templates
         = (IF outreach_logs[l].is_urgent THEN "urgent" ELSE "normal")
    /\ outreach_logs[l].parent_outreach_log # NoLog =>
         outreach_logs[l].is_urgent
           = outreach_logs[outreach_logs[l].parent_outreach_log].is_urgent

\* The part that holds: follow_up and final emails are composed from the set
\* matching the urgency of the log they follow.
C31_FollowUpTemplates ==
  \A l \in LogIds :
    outreach_logs[l].parent_outreach_log # NoLog =>
      outreach_logs[l].templates
        = (IF outreach_logs[outreach_logs[l].parent_outreach_log].is_urgent
             THEN "urgent" ELSE "normal")

\* C32: every initial outreach starts a fresh thread: two distinct initial
\* OutreachLogs never share a thread-id, including two independent outreach
\* cycles for the same role and company.
C32_FreshThreadPerInitial ==
  \A l1, l2 \in InitialLogs(outreach_logs) :
    l1 # l2 => outreach_logs[l1].thread_id # outreach_logs[l2].thread_id

\* What holds instead: initial logs share a thread-id exactly when they are
\* for the same role and company.
C32_ThreadPerRoleAndCompany ==
  \A l1, l2 \in InitialLogs(outreach_logs) :
    (outreach_logs[l1].thread_id = outreach_logs[l2].thread_id)
      <=> /\ outreach_logs[l1].intern_role_id = outreach_logs[l2].intern_role_id
          /\ outreach_logs[l1].company_id = outreach_logs[l2].company_id

\* C33: the weekly counter resets on the Monday week boundary: the first
\* successful send to a company in a week later than the stored
\* week_start_date sets week_start_date to the current week's Monday and
\* emails_sent_this_week to 1, and a send within the stored week raises the
\* counter by exactly 1; a limiter row from an earlier week never blocks a send.
C33_WeeklyReset ==
  /\ [][\A l \in NewLogs :
          outreach_logs'[l].email_type = "initial" =>
            LET co == outreach_logs'[l].company_id
                stored == email_limiter[co]
                row == email_limiter'[co]
            IN  /\ row.exists
                /\ (stored.exists /\ stored.week_start_date < WeekOf(now))
                     => /\ row.week_start_date = WeekOf(now)
                        /\ row.emails_sent_this_week = 1
                /\ (stored.exists /\ stored.week_start_date = WeekOf(now))
                     => /\ row.week_start_date = stored.week_start_date
                        /\ row.emails_sent_this_week = stored.emails_sent_this_week + 1]_vars
  /\ [][/\ last_dispatch'.op = "outreach"
        /\ email_limiter[RoleCompany[DispatchedRole]].exists
        /\ email_limiter[RoleCompany[DispatchedRole]].week_start_date < WeekOf(now)
        => last_dispatch'.reason # "email_limit_reached"]_vars
  /\ [](\A co \in Companies :
          email_limiter[co].exists =>
            /\ email_limiter[co].week_start_date <= WeekOf(now)
            /\ email_limiter[co].week_start_date % DaysPerWeek = 0)

\* A send that is not urgent went out in the first week and another in the
\* second: the row of the company is at the second Monday with a count of 1.
C33_Witness ==
  \E co \in Companies, l1, l2 \in LogIds :
    /\ outreach_logs[l1].email_type = "initial" /\ outreach_logs[l1].company_id = co
    /\ outreach_logs[l2].email_type = "initial" /\ outreach_logs[l2].company_id = co
    /\ ~outreach_logs[l1].is_urgent /\ ~outreach_logs[l2].is_urgent
    /\ WeekOf(outreach_logs[l1].sent_at) < WeekOf(outreach_logs[l2].sent_at)
    /\ email_limiter[co].week_start_date = WeekOf(outreach_logs[l2].sent_at)
    /\ email_limiter[co].emails_sent_this_week = 1

\* C34: the intern-to-employee rule excludes a role exactly when the
\* company's employee count is missing or non-numeric, or when confirmed deals
\* divided by the employee count is greater than 0.25 (exactly 0.25 is not
\* excluded, and any numeric count including 0 with at least one confirmed
\* deal is judged by the ratio); a role whose company record is missing is not
\* excluded.
ReturnedRoles(c) ==
  {last_recompute[c].matches[i].intern_role_id : i \in 1..Len(last_recompute[c].matches)}

FreshResult(c) ==
  last_recompute[c].fresh /\ last_recompute[c].path = "find_matches_for_contact"

\* confirmed / employees > 1/4, a count of 0 under one deal or more included
RatioAboveQuarter(confirmed, employees) ==
  /\ confirmed >= 1
  /\ \/ employees = 0
     \/ employees > 0 /\ 4 * confirmed > employees

RatioRuleExcludes(co) ==
  /\ co \in crm.accounts
  /\ \/ crm.no_employees[co] = ""
     \/ crm.no_employees[co] \notin DOMAIN IntValue
     \/ /\ crm.no_employees[co] \in DOMAIN IntValue
        /\ RatioAboveQuarter(crm.confirmed_deals[co], IntValue[crm.no_employees[co]])

NoActiveDeals(co) == crm.active_deals[co] = 0 /\ crm.loose_active_deals[co] = 0

C34_RatioRule ==
  \A c \in Cands, r \in Roles :
    FreshResult(c) /\ NoActiveDeals(crm.intern_company_id[r])
      => (r \notin ReturnedRoles(c) <=> RatioRuleExcludes(crm.intern_company_id[r]))

\* What holds instead: the same, with a count of 0 never excluded.
C34_RatioRuleButZero ==
  \A c \in Cands, r \in Roles :
    FreshResult(c) /\ NoActiveDeals(crm.intern_company_id[r])
      => (r \notin ReturnedRoles(c)
            <=> /\ RatioRuleExcludes(crm.intern_company_id[r])
                /\ crm.no_employees[crm.intern_company_id[r]] # "0")

\* C35: the active-deal rule excludes a role exactly when more than 3 of its
\* company's deals have a stage that equals or contains one of Scheduling
\* Interview, Pending Interview, Rescheduling Interview, Pending Outcome
\* (case-insensitive); exact and contains matches are counted together, and
\* exactly 3 such deals do not exclude.
RatioRulePasses(co) ==
  crm.confirmed_deals[co] = 0 /\ crm.no_employees[co] \in DOMAIN IntValue

C35_ActiveDealRule ==
  \A c \in Cands, r \in Roles :
    LET co == crm.intern_company_id[r]
    IN  FreshResult(c) /\ RatioRulePasses(co)
          => (r \notin ReturnedRoles(c)
                <=> crm.active_deals[co] + crm.loose_active_deals[co] > 3)

\* What holds instead: the deals whose stage only contains one of the four
\* names, or differs from it in case, count only when no deal has one of the
\* names as written.
C35_ExactCountFirst ==
  \A c \in Cands, r \in Roles :
    LET co == crm.intern_company_id[r]
    IN  FreshResult(c) /\ RatioRulePasses(co)
          => (r \notin ReturnedRoles(c)
                <=> IF crm.active_deals[co] >= 1
                      THEN crm.active_deals[co] > 3
                      ELSE crm.loose_active_deals[co] > 3)

\* C36: a dry run of the outreach batch changes no state: it sends no email
\* and creates or modifies no OutreachLog, CandidateOutreachHistory,
\* FollowUpTask or EmailLimiter row, and it reports the same role-to-candidates
\* grouping that a real run started from the same state would dispatch.
DryRunReturns == pc = "idle" /\ pc' = "idle" /\ pools'.status = "dry_run_completed"

NoRowChanged ==
  /\ outreach_logs' = outreach_logs
  /\ outreach_history' = outreach_history
  /\ follow_up_tasks' = follow_up_tasks
  /\ email_limiter' = email_limiter

\* The roles a real run with the same max_roles hands to
\* process_outreach_for_role in each of its two passes.
RealRunDispatches(tie, max_roles) ==
  [role_candidates |-> Truncate(get_top_candidates_by_role(tie), max_roles),
   urgent_role_candidates |-> Truncate(get_urgent_candidates_by_role(tie), max_roles)]

C36_DryRunPreview ==
  [][DryRunReturns =>
       /\ NoRowChanged
       /\ \E tie \in TieOrders :
            LET real == RealRunDispatches(tie, pools'.max_roles)
            IN  /\ pools'.role_candidates = real.role_candidates
                /\ pools'.urgent_role_candidates = real.urgent_role_candidates]_vars

\* What holds: no row changes, and the report is what a real run without
\* max_roles dispatches.
C36_DryRunOfUnlimitedRun ==
  [][DryRunReturns =>
       /\ NoRowChanged
       /\ contacts' = contacts /\ job_matches' = job_matches /\ now' = now
       /\ \E tie \in TieOrders :
            LET real == RealRunDispatches(tie, 0)
            IN  /\ pools'.role_candidates = real.role_candidates
                /\ pools'.urgent_role_candidates = real.urgent_role_candidates]_vars

\* C37: a reply to a follow_up or final email, whose message id is stored on the
\* child log created for that email, stops the rest of the cadence of the
\* outreach event it belongs to: after the reply is ingested no later-stage
\* email is sent and no move-to-next runs for the initial log that owns the
\* remaining tasks.
RepliedChildren ==
  {l \in LogIds : /\ outreach_logs[l].parent_outreach_log # NoLog
                  /\ outreach_logs[l].response_received
                  /\ outreach_logs[l].response_type = "reply"}

\* This step sends a later-stage email of the outreach event of log p.
LaterStageSent(p) ==
  /\ Len(outreach_logs') > Len(outreach_logs)
  /\ \E k \in (Len(outreach_logs) + 1)..Len(outreach_logs') :
       outreach_logs'[k].parent_outreach_log = p

\* This step ends the move-to-next of log p.
MoveToNextRuns(p) == p \in moved' /\ p \notin moved

C37_ReplyToFollowUpStopsCadence ==
  [][\A l \in RepliedChildren :
       LET p == outreach_logs[l].parent_outreach_log
       IN  ~LaterStageSent(p) /\ ~MoveToNextRuns(p)]_vars

\* What holds: the cadence stops once the response is recorded on the initial
\* log itself, the log the remaining tasks point to.
C37_ResponseOnInitialLogStopsCadence ==
  [][\A p \in LogIds :
       outreach_logs[p].response_received
         => ~LaterStageSent(p) /\ ~MoveToNextRuns(p)]_vars

\* C38: when two sweeps overlap in time, no FollowUpTask is carried out twice:
\* the follow_up or final email of a task is sent at most once, and
\* move-to-next starts new outreach for a log at most once.
\* The sweeps whose results report move_to_next task t as carried out.
MovedBy(t) ==
  {w \in DOMAIN workers :
     \E i \in 1..Len(workers[w].task_results) :
       /\ workers[w].task_results[i].task_id = t
       /\ workers[w].task_results[i].status = "success"}

C38_NoTaskCarriedOutTwice ==
  /\ \A l \in InitialLogs(outreach_logs) :
       /\ Cardinality(ChildLogs(outreach_logs, l, "follow_up")) <= 1
       /\ Cardinality(ChildLogs(outreach_logs, l, "final")) <= 1
  /\ \A t \in TaskIds :
       follow_up_tasks[t].follow_up_type = "move_to_next"
         => Cardinality(MovedBy(t)) <= 1

\* What holds when sweeps run one after the other: each stage email of an
\* outreach event is sent at most once.
C38_OneSweepAtATime ==
  \A l \in InitialLogs(outreach_logs) :
    /\ Cardinality(ChildLogs(outreach_logs, l, "follow_up")) <= 1
    /\ Cardinality(ChildLogs(outreach_logs, l, "final")) <= 1

\* C39: with finitely many candidates, roles and stored matches, and sweeps
\* that keep running after the scheduled times pass, the campaign quiesces:
\* every outreach event eventually has no incomplete FollowUpTask (it ends
\* responded or moved_to_next), the chain of move-to-next cycles started from
\* one initial outreach is finite, and from some point on no further email is
\* sent.
\* The outreach events whose three tasks fall due within the modelled time.
EventsInTime ==
  {l \in InitialLogs(outreach_logs) :
     outreach_logs[l].sent_at + MOVE_TO_NEXT_HOURS <= LiveTicks * TickHours}

NoIncompleteTask(l) ==
  \A t \in TaskIds :
    follow_up_tasks[t].outreach_log = l => follow_up_tasks[t].completed

Ended(l) ==
  /\ NoIncompleteTask(l)
  /\ \/ outreach_logs[l].response_received
     \/ outreach_logs[l].response_type = "moved_to_next"

\* The (candidate, role) pairs with a stored match.
MatchedPairs ==
  {cr \in MatchedCands \X MatchedRoles : job_matches[cr[1]][cr[2]] > 0}

\* Every initial outreach, started by a batch or by a move-to-next, uses up a
\* pair, and each has at most one follow_up and one final email.
ChainIsFinite ==
  /\ Cardinality(InitialLogs(outreach_logs)) <= Cardinality(MatchedPairs)
  /\ Len(outreach_logs) <= 3 * Cardinality(MatchedPairs)
  /\ Len(outreach_logs) < LiveLogs

NoEmailSent == Len(outreach_logs') = Len(outreach_logs)

C39_CampaignQuiesces ==
  /\ <>[](\A l \in EventsInTime : Ended(l))
  /\ []ChainIsFinite
  /\ <>[][NoEmailSent]_vars

\* What holds under the same scheduling: the chain is finite and the emails
\* stop.
C39_EmailsStop ==
  /\ []ChainIsFinite
  /\ <>[][NoEmailSent]_vars

\* What holds when, in addition, no send keeps failing for ever.
C39_QuiescesWhenSendsGetThrough ==
  /\ <>[](\A l \in EventsInTime : Ended(l))
  /\ []ChainIsFinite
  /\ <>[][NoEmailSent]_vars

====
